---------------------------- MODULE Spec2Model ----------------------------
(***************************************************************************)
(* A model of the med-health application (SoccerDevC/testing): the inbox   *)
(* aggregation of the doctor and patient message screens, the appointment  *)
(* status handlers of both roles, and the role routing of the root layout. *)
(*                                                                         *)
(* Each part of the application has its own specification over the shared  *)
(* variables: SpecInbox, SpecAppt, SpecAuth (and SpecAuthFair, the same    *)
(* with the fairness of backend responses).                                *)
(***************************************************************************)
EXTENDS Integers, Sequences, FiniteSets, TLC

VARIABLES
  \* ---- inbox screens: (doctor)/index.tsx MessagesScreen, (patient)/index.tsx PatientMessagesScreen
  role,          \* role of the signed-in user "u" whose inbox screen is mounted
  messages,      \* backend table messages: a set of rows
  usersRows,     \* ids the users query returns for the other role, in the backend's row order
  failing,       \* [who, what]: the sub-query that failed in the last run ("none": all succeeded)
  chats,         \* MessagesScreen state chats (doctor inbox)
  doctors,       \* PatientMessagesScreen state doctors (patient inbox)
  loading,       \* the screen's loading flag
  pc,            \* "idle" before the first run, "done" after a run, "removed" after a conversation was deleted
  published,     \* TRUE iff the last run reached setChats / setDoctors
  removed,       \* the counterpart whose conversation was deleted in the backend, or "none"
  \* ---- appointments: (doctor)/bookings.tsx DoctorBookingsScreen, (patient)/_layout.tsx PatientBookingsScreen, BookAppointment
  appointments,        \* backend table appointments: id -> [date, status]
  docAppointments,     \* DoctorBookingsScreen state appointments: a sequence of [id, date, status]
  patAppointments,     \* PatientBookingsScreen state appointments
  selectedAppointment, \* DoctorBookingsScreen state selectedAppointment (a list item, or NoAppointment)
  newDate,             \* DoctorBookingsScreen state newDate
  showDatePicker,      \* DoctorBookingsScreen state showDatePicker
  actor,               \* whose session acts on the appointments: "doctor", "patient" or "both"
  lastOp,              \* the handler the last step ran and how its backend call ended
  \* ---- authentication and routing: context/auth-context.tsx AuthProvider, app/_layout.tsx RootLayoutNav
  usersTable,      \* backend table users: email -> role, or NoRow
  authSession,     \* the auth service's session of this device: an email, or NoSession
  session,         \* AuthProvider state session
  user,            \* AuthProvider state user: a record, or NoUser
  authLoading,     \* AuthProvider state loading
  segment,         \* segments[0] of the router: "index", "(auth)", "(doctor)", "(patient)"
  getSessionPending, \* the initial getSession() promise is in flight
  authEvents,      \* auth state changes not yet delivered to the onAuthStateChange callback
  roleLookups,     \* getUserRole calls in flight: a sequence of [user, origin]
  effectPending,   \* the RootLayoutNav effect is scheduled (a dependency changed)
  signInCall,      \* signIn in flight: NoCall or [email, user, stage]
  signOutCall,     \* signOut in flight (awaiting supabase.auth.signOut)
  nav,             \* the router.replace the last step performed: the target group, or "none"
  signIns,         \* sign-in attempts made so far
  refreshes,       \* auth state changes the auth service raised on its own so far
  \* ---- doctor inbox with its realtime subscription: (doctor)/index.tsx MessagesScreen
  fetchRuns,       \* fetchChats runs in flight: a sequence of [stage, snapshot]
  rtEvents,        \* INSERT events raised for the doctor and not yet delivered to the callback
  inserts,         \* messages inserted since the screen was mounted
  completedRuns,   \* fetchChats runs that reached setChats
  \* ---- patient booking: (patient)/_layout.tsx PatientBookingsScreen (modal), BookAppointment
  now,               \* the current time
  showBookingModal,  \* PatientBookingsScreen state showBookingModal
  selectedDoctor,    \* PatientBookingsScreen state selectedDoctor (a doctor id, or NoDoctor)
  appointmentDate,   \* PatientBookingsScreen state appointmentDate
  paymentMethod,     \* PatientBookingsScreen state paymentMethod (or NoMethod)
  bookingDialog,     \* the "Confirm Booking" alert: the form values its Confirm button holds, or NoDialog
  \* ---- sign-up: RegisterScreen (unnamed/part_000), context/auth-context.tsx AuthProvider.signUp
  regForm,           \* RegisterScreen state: [name, email, password, confirmPassword]
  regLoading,        \* RegisterScreen state loading
  signUpCall,        \* signUp in flight: [stage, email, name], stage "none" when idle
  authAccounts,      \* the emails that have an account at the auth service
  signUpReturn,      \* what the last signUp call returned: [error], "none" before any return
  \* ---- chat: (doctor)/chat.tsx ChatScreen, (doctor)/messages.tsx DoctorChatScreen
  chatTable,         \* backend table messages as the chat screens see it: rows in insertion order
  storageFiles,      \* the public URLs of the files uploaded to the bucket chat-media
  chatUserId,        \* user?.id of the auth context, "" when unknown
  chatPatientId,     \* route parameter patientId of the chat screen, "" when missing
  chatMounted,       \* whether the chat screen is mounted
  chatMessages,      \* chat screen state messages (the local list)
  newMessage,        \* chat screen state newMessage (the draft), a sequence of characters
  chatLoading,       \* chat screen state loading
  sendingMedia,      \* DoctorChatScreen state sendingMedia
  subscription,      \* the realtime subscription of the last effect run: [user, patientId], or NoSub
  chatEvents,        \* INSERT events the backend has sent to the subscription, not yet delivered
  fetches,           \* fetchMessages calls in flight: [user, patientId, stage, ok, data]
  markReads,         \* markMessagesAsRead updates in flight: a set of [user, patientId]
  sends,             \* sendMessage inserts answered by the backend, response not yet handled
  mediaOps,          \* uploadAndSendMedia calls in flight
  effectRuns,        \* number of runs of the screen's effect so far
  mediaCalls,        \* number of uploadAndSendMedia calls so far
  \* ---- verification: (patient)/index.tsx PatientHomeScreen
  pvRow,             \* the patient's row of the backend table patient_verification, or NoPvRow
  isVerified,        \* PatientHomeScreen state isVerified
  pvLoading,         \* PatientHomeScreen state loading
  showVerificationForm, \* PatientHomeScreen state showVerificationForm
  verificationData,  \* PatientHomeScreen state verificationData: [medical_history, emergency_contact]
  statusFetches,     \* checkVerificationStatus calls in flight: [stage, kind, data]
  pvSubmit,          \* handleVerificationSubmit in flight: [stage, ok]
  \* ---- voice messages: (doctor)/messages.tsx startRecording, stopRecording
  micPressed,        \* TRUE while the microphone button is held down
  presses,           \* number of press-ins so far
  recording,         \* state recording: the id of an Audio.Recording object, or NoRecording (null)
  isRecording,       \* state isRecording
  recorders,         \* the Audio.Recording objects created so far: id -> "active" | "stopped"
  startCalls,        \* startRecording calls: [press, stage]
  stopCalls,         \* stopRecording calls past their first test: [press, rec, stage]
  audioSent,         \* press -> number of audio messages sent by the stopRecording of that press
  \* ---- doctor dashboard: (doctor)/index.tsx DoctorHomeScreen
  dashAppts,         \* backend table appointments: a sequence of [patient_id, doctor_id, status]
  dashMsgs,          \* backend table messages: a sequence of [receiver_id, read]
  homeAppointments,  \* state appointments: the rows of the first query
  homeMessages,      \* state messages: the rows of the second query
  patientCount,      \* state patientCount
  homeLoading,       \* state loading
  refreshing,        \* state refreshing
  homeFetches        \* fetchData calls: [stage, failed, appts, msgs, count]

inboxVars == <<role, messages, usersRows, failing, chats, doctors, loading, pc, published, removed>>

apptVars == <<appointments, docAppointments, patAppointments, selectedAppointment, newDate,
              showDatePicker, actor, lastOp>>

authVars == <<usersTable, authSession, session, user, authLoading, segment, getSessionPending,
              authEvents, roleLookups, effectPending, signInCall, signOutCall, nav, signIns,
              refreshes>>

rtVars == <<fetchRuns, rtEvents, inserts, completedRuns>>

bookVars == <<now, showBookingModal, selectedDoctor, appointmentDate, paymentMethod, bookingDialog>>

signUpVars == <<regForm, regLoading, signUpCall, authAccounts, signUpReturn>>

chatVars ==
  <<chatTable, storageFiles, chatUserId, chatPatientId, chatMounted, chatMessages,
    newMessage, chatLoading, sendingMedia, subscription, chatEvents, fetches, markReads,
    sends, mediaOps, effectRuns, mediaCalls>>

verifVars ==
  <<pvRow, isVerified, pvLoading, showVerificationForm, verificationData, statusFetches,
    pvSubmit>>

recVars ==
  <<micPressed, presses, recording, isRecording, recorders, startCalls, stopCalls, audioSent>>

dashVars ==
  <<dashAppts, dashMsgs, homeAppointments, homeMessages, patientCount, homeLoading, refreshing,
    homeFetches>>

\* the screens modelled last
lateVars == <<verifVars, recVars, dashVars>>

\* the parts of the application modelled after the first three
otherVars == <<rtVars, bookVars, signUpVars, chatVars, lateVars>>

\* for the actions of each of these parts: the other parts
notRtVars == <<bookVars, signUpVars, chatVars, lateVars>>
notBookVars == <<rtVars, signUpVars, chatVars, lateVars>>
notSignUpVars == <<rtVars, bookVars, chatVars, lateVars>>
notChatVars == <<rtVars, bookVars, signUpVars, lateVars>>
earlyVars == <<rtVars, bookVars, signUpVars, chatVars>>
notVerifVars == <<earlyVars, recVars, dashVars>>
notRecVars == <<earlyVars, verifVars, dashVars>>
notDashVars == <<earlyVars, verifVars, recVars>>

vars == <<inboxVars, apptVars, authVars, otherVars>>

-----------------------------------------------------------------------------
(* Bounds and domains                                                      *)

\* rows of the messages table in the initial state
MaxMsgs == 2

\* the current user and the users of the other role
CurrentUser == "u"
Counterparts == {"p1", "p2", "p3"}

\* JS undefined / null of a missing last message (patient entry fields)
Undefined == "undefined"
\* the falsy lastMessageTime of a conversation without messages ('' or undefined)
EmptyTime == 0
\* placeholder text of the doctor inbox
NoMessagesYet == "No messages yet"


\* rows the appointments table can hold, and the dates a picker can return
MaxAppts == 2
MaxDate == 2

\* sign-in attempts of a behaviour, and auth state changes the auth service
\* raises on its own (token refreshes)
MaxSignIns == 2
MaxRefreshes == 1
Dates == 1..MaxDate

\* selectedAppointment = null
NoAppointment == [id |-> 0, date |-> 0, status |-> "none"]

\* user = null, session = null, no users row, no call in flight
NoUser == [email |-> "", id |-> "", role |-> "", name |-> ""]
NoSession == ""
NoRow == ""
NoCall == [email |-> "", user |-> NoUser, stage |-> "none"]

\* no handler has run yet
NoOp == [name |-> "none", result |-> "none"]

\* selectedDoctor = null, paymentMethod = null, no alert shown
NoDoctor == ""
NoMethod == ""
NoDialog == [doctor |-> NoDoctor, date |-> 0, method |-> NoMethod, open |-> FALSE]

\* the appointment screens before any of them is mounted
ApptIdle ==
  /\ appointments = <<>>
  /\ docAppointments = <<>>
  /\ patAppointments = <<>>
  /\ selectedAppointment = NoAppointment
  /\ newDate = 1
  /\ showDatePicker = FALSE
  /\ actor = "both"
  /\ lastOp = NoOp

\* the auth provider when it plays no part
AuthIdle ==
  /\ usersTable = <<>>
  /\ authSession = NoSession
  /\ session = NoSession
  /\ user = NoUser
  /\ authLoading = FALSE
  /\ segment = "index"
  /\ getSessionPending = FALSE
  /\ authEvents = <<>>
  /\ roleLookups = <<>>
  /\ effectPending = FALSE
  /\ signInCall = NoCall
  /\ signOutCall = FALSE
  /\ nav = "none"
  /\ signIns = 0
  /\ refreshes = 0

\* the inbox screens when they play no part
InboxIdle ==
  /\ role = "doctor"
  /\ messages = {}
  /\ usersRows = <<>>
  /\ failing = [who |-> "none", what |-> "none"]
  /\ chats = <<>>
  /\ doctors = <<>>
  /\ loading = TRUE
  /\ pc = "idle"
  /\ published = FALSE
  /\ removed = "none"

\* the realtime inbox when it plays no part
RealtimeIdle ==
  /\ fetchRuns = <<>>
  /\ rtEvents = 0
  /\ inserts = 0
  /\ completedRuns = 0

\* the booking form when it plays no part
BookingIdle ==
  /\ now = 0
  /\ showBookingModal = FALSE
  /\ selectedDoctor = NoDoctor
  /\ appointmentDate = 0
  /\ paymentMethod = NoMethod
  /\ bookingDialog = NoDialog

\* an empty register form, no signUp call
EmptyForm == [name |-> "", email |-> "", password |-> "", confirmPassword |-> ""]
NoSignUp == [stage |-> "none", email |-> "", name |-> ""]

\* the register screen when it plays no part
SignUpIdle ==
  /\ regForm = EmptyForm
  /\ regLoading = FALSE
  /\ signUpCall = NoSignUp
  /\ authAccounts = {}
  /\ signUpReturn = [error |-> "none"]

\* no realtime subscription
NoSub == [user |-> "", patientId |-> ""]

\* the chat screens when they play no part
ChatIdle ==
  /\ chatTable = <<>>
  /\ storageFiles = {}
  /\ chatUserId = ""
  /\ chatPatientId = ""
  /\ chatMounted = FALSE
  /\ chatMessages = <<>>
  /\ newMessage = <<>>
  /\ chatLoading = TRUE
  /\ sendingMedia = FALSE
  /\ subscription = NoSub
  /\ chatEvents = <<>>
  /\ fetches = <<>>
  /\ markReads = {}
  /\ sends = <<>>
  /\ mediaOps = <<>>
  /\ effectRuns = 0
  /\ mediaCalls = 0

\* no row in patient_verification, an empty profile form, no submission
NoPvRow == [exists |-> FALSE, verified |-> FALSE, medical_history |-> "", emergency_contact |-> ""]
EmptyProfile == [medical_history |-> "", emergency_contact |-> ""]
NoSubmit == [stage |-> "none", ok |-> TRUE]

\* the patient home screen when it plays no part
VerifIdle ==
  /\ pvRow = NoPvRow
  /\ isVerified = FALSE
  /\ pvLoading = TRUE
  /\ showVerificationForm = FALSE
  /\ verificationData = EmptyProfile
  /\ statusFetches = <<>>
  /\ pvSubmit = NoSubmit

\* null in the state recording
NoRecording == 0

\* the microphone button when it plays no part
RecIdle ==
  /\ micPressed = FALSE
  /\ presses = 0
  /\ recording = NoRecording
  /\ isRecording = FALSE
  /\ recorders = <<>>
  /\ startCalls = <<>>
  /\ stopCalls = <<>>
  /\ audioSent = <<>>

\* the doctor dashboard when it plays no part
DashIdle ==
  /\ dashAppts = <<>>
  /\ dashMsgs = <<>>
  /\ homeAppointments = <<>>
  /\ homeMessages = <<>>
  /\ patientCount = 0
  /\ homeLoading = TRUE
  /\ refreshing = FALSE
  /\ homeFetches = <<>>

LateIdle == VerifIdle /\ RecIdle /\ DashIdle
EarlyIdle == RealtimeIdle /\ BookingIdle /\ SignUpIdle /\ ChatIdle
OtherIdle == EarlyIdle /\ LateIdle
NotRtIdle == BookingIdle /\ SignUpIdle /\ ChatIdle /\ LateIdle
NotBookIdle == RealtimeIdle /\ SignUpIdle /\ ChatIdle /\ LateIdle
NotSignUpIdle == RealtimeIdle /\ BookingIdle /\ ChatIdle /\ LateIdle
NotChatIdle == RealtimeIdle /\ BookingIdle /\ SignUpIdle /\ LateIdle
NotVerifIdle == EarlyIdle /\ RecIdle /\ DashIdle
NotRecIdle == EarlyIdle /\ VerifIdle /\ DashIdle
NotDashIdle == EarlyIdle /\ VerifIdle /\ RecIdle

-----------------------------------------------------------------------------
(* The backend's messages table, as the inbox queries see it               *)

\* third-party traffic: messages one counterpart sent to another
ThirdPartyPairs == {pq \in Counterparts \X Counterparts : pq[1] # pq[2]}

\* the kinds of row a table holds: conversations of the current user with a
\* counterpart in either direction (an inbound row read or unread), and rows
\* between two counterparts (third-party traffic, unread by its receiver)
RowKinds ==
  {[sender_id |-> p, receiver_id |-> CurrentUser, read |-> r] : p \in Counterparts, r \in BOOLEAN}
  \cup {[sender_id |-> CurrentUser, receiver_id |-> p, read |-> FALSE] : p \in Counterparts}
  \cup {[sender_id |-> pq[1], receiver_id |-> pq[2], read |-> FALSE] : pq \in ThirdPartyPairs}

\* row i of a table: ids are serial, created_at defaults to now(), so later rows are later
MessageRow(i, k) ==
  [id |-> i, sender_id |-> k.sender_id, receiver_id |-> k.receiver_id,
   message |-> ToString(i), created_at |-> i, read |-> k.read]

MessageTables ==
  UNION {{ {MessageRow(i, ks[i]) : i \in 1..n} : ks \in [1..n -> RowKinds] } : n \in 0..MaxMsgs}

\* the orders in which the users query (no ORDER BY) can return a non-empty set of counterparts
RECURSIVE Perms(_)
Perms(S) ==
  IF S = {} THEN {<<>>}
  ELSE UNION {{<<x>> \o p : p \in Perms(S \ {x})} : x \in S}

UsersRowOrders == UNION {Perms(S) : S \in (SUBSET Counterparts) \ {{}}}

\* .order('created_at', { ascending: false }).limit(1) over a non-empty set of rows
Latest(rows) == CHOOSE m \in rows : \A n \in rows : n.created_at <= m.created_at

\* JS truthiness of a string-or-undefined field and of a timestamp field
Truthy(v) == v # Undefined /\ v # ""
TruthyTime(t) == t # EmptyTime

\* new Date(t).getTime(): the model's timestamps are already millisecond counts
GetTime(t) == t

-----------------------------------------------------------------------------
(* Doctor inbox: MessagesScreen.fetchChats                                 *)

\* (mutant) the count query without its sender filter
UnreadCountQueryAnySender(msgs, senderId, receiverId) ==
  Cardinality({m \in msgs : m.receiver_id = receiverId /\ m.read = FALSE})

\* .eq('sender_id', patientId).eq('receiver_id', user.id).eq('read', false), count exact
UnreadCountQuery(msgs, senderId, receiverId) ==
  Cardinality({m \in msgs : m.sender_id = senderId /\ m.receiver_id = receiverId /\ m.read = FALSE})

\* one element of unreadCounts: error -> count 0, else count || 0
UnreadCountOf(msgs, patientId, fail) ==
  IF fail.who = patientId /\ fail.what = "unread" THEN 0
  ELSE UnreadCountQuery(msgs, patientId, CurrentUser)

\* .or(and(sender.eq.user,receiver.eq.patient),and(sender.eq.patient,receiver.eq.user))
LastMessageRowsDoctor(msgs, patientId) ==
  {m \in msgs : \/ (m.sender_id = CurrentUser /\ m.receiver_id = patientId)
                \/ (m.sender_id = patientId /\ m.receiver_id = CurrentUser)}

\* one element of lastMessages: error, no data or empty data -> nulls
LastMessageOf(msgs, patientId, fail) ==
  LET rows == LastMessageRowsDoctor(msgs, patientId) IN
  IF (fail.who = patientId /\ fail.what = "last") \/ rows = {}
  THEN [patientId |-> patientId, lastMessage |-> Undefined, lastMessageTime |-> EmptyTime]
  ELSE [patientId |-> patientId, lastMessage |-> Latest(rows).message,
        lastMessageTime |-> Latest(rows).created_at]

\* lastMessageMap holds an entry only if (item.lastMessage) is truthy
LastMessageMapHas(msgs, patientId, fail) == Truthy(LastMessageOf(msgs, patientId, fail).lastMessage)

\* one element of chatsWithDetails
ChatWithDetails(msgs, patientId, fail) ==
  [id |-> patientId,
   lastMessage |-> IF LastMessageMapHas(msgs, patientId, fail)
                   THEN LastMessageOf(msgs, patientId, fail).lastMessage ELSE NoMessagesYet,
   lastMessageTime |-> IF LastMessageMapHas(msgs, patientId, fail)
                          /\ TruthyTime(LastMessageOf(msgs, patientId, fail).lastMessageTime)
                       THEN LastMessageOf(msgs, patientId, fail).lastMessageTime ELSE EmptyTime,
   unreadCount |-> UnreadCountOf(msgs, patientId, fail)]

\* (mutant) the list built from the keys of lastMessageMap instead of patientsData
RECURSIVE ChatsWithDetailsFromMap(_, _, _)
ChatsWithDetailsFromMap(msgs, patientsData, fail) ==
  IF patientsData = <<>> THEN <<>>
  ELSE LET rest == ChatsWithDetailsFromMap(msgs, SubSeq(patientsData, 1, Len(patientsData) - 1), fail)
           last == patientsData[Len(patientsData)] IN
       IF LastMessageMapHas(msgs, last, fail)
       THEN Append(rest, ChatWithDetails(msgs, last, fail)) ELSE rest

\* patientsData.map(...)
ChatsWithDetails(msgs, patientsData, fail) ==
  [i \in 1..Len(patientsData) |-> ChatWithDetails(msgs, patientsData[i], fail)]

\* (mutant) the comparator without its unread-count key
DoctorCompareTimeOnly(a, b) ==
  IF TruthyTime(a.lastMessageTime) /\ TruthyTime(b.lastMessageTime)
  THEN GetTime(b.lastMessageTime) - GetTime(a.lastMessageTime)
  ELSE 0

\* the comparator of chatsWithDetails.sort
DoctorCompare(a, b) ==
  IF a.unreadCount # b.unreadCount THEN b.unreadCount - a.unreadCount
  ELSE IF TruthyTime(a.lastMessageTime) /\ TruthyTime(b.lastMessageTime)
       THEN GetTime(b.lastMessageTime) - GetTime(a.lastMessageTime)
       ELSE 0

-----------------------------------------------------------------------------
(* Patient inbox: PatientMessagesScreen.fetchDoctors                       *)

\* (mutant) the two or-filters joined into one disjunction
LastMessageRowsPatientAnyOf(msgs, doctorId) ==
  {m \in msgs : \/ (m.sender_id = doctorId \/ m.receiver_id = doctorId)
                \/ (m.sender_id = CurrentUser \/ m.receiver_id = CurrentUser)}

\* .or(sender.eq.doctor,receiver.eq.doctor).or(sender.eq.user,receiver.eq.user):
\* the two or-filters are ANDed by the query API
LastMessageRowsPatient(msgs, doctorId) ==
  {m \in msgs : /\ (m.sender_id = doctorId \/ m.receiver_id = doctorId)
                /\ (m.sender_id = CurrentUser \/ m.receiver_id = CurrentUser)}

\* one element of doctorsList (both sub-queries succeeded)
DoctorEntry(msgs, doctorId) ==
  LET messageData == LastMessageRowsPatient(msgs, doctorId)
      count == UnreadCountQuery(msgs, doctorId, CurrentUser) IN
  [id |-> doctorId,
   lastMessage |-> IF messageData = {} THEN Undefined ELSE Latest(messageData).message,
   lastMessageTime |-> IF messageData = {} THEN EmptyTime ELSE Latest(messageData).created_at,
   hasUnread |-> IF count # 0 THEN count > 0 ELSE FALSE]

DoctorsList(msgs, doctorsData) ==
  [i \in 1..Len(doctorsData) |-> DoctorEntry(msgs, doctorsData[i])]

\* the comparator of doctorsList.sort
PatientCompare(a, b) ==
  IF a.hasUnread /\ ~b.hasUnread THEN -1
  ELSE IF ~a.hasUnread /\ b.hasUnread THEN 1
  ELSE IF TruthyTime(a.lastMessageTime) /\ TruthyTime(b.lastMessageTime)
       THEN GetTime(b.lastMessageTime) - GetTime(a.lastMessageTime)
       ELSE 0

-----------------------------------------------------------------------------
(* Array.prototype.sort: a stable insertion sort, which is what the engines *)
(* run on arrays this short; the comparator is taken as it is written.      *)

Compare(kind, a, b) == IF kind = "doctor" THEN DoctorCompare(a, b) ELSE PatientCompare(a, b)

RECURSIVE SortInsert(_, _, _)
SortInsert(kind, sorted, x) ==
  IF sorted = <<>> THEN <<x>>
  ELSE LET last == sorted[Len(sorted)] IN
       IF Compare(kind, last, x) > 0
       THEN Append(SortInsert(kind, SubSeq(sorted, 1, Len(sorted) - 1), x), last)
       ELSE Append(sorted, x)

RECURSIVE ArraySort(_, _)
ArraySort(kind, arr) ==
  IF arr = <<>> THEN <<>>
  ELSE SortInsert(kind, ArraySort(kind, SubSeq(arr, 1, Len(arr) - 1)), arr[Len(arr)])

-----------------------------------------------------------------------------
(* The inbox screens as a state machine: SpecInbox                         *)

NoFailure == [who |-> "none", what |-> "none"]

\* what a run of the aggregation can meet: every query succeeds, the users query
\* fails, or one sub-query of one counterpart fails
FailChoices(rows) ==
  {NoFailure} \cup {[who |-> "users", what |-> "users"]}
  \cup {[who |-> rows[i], what |-> w] : i \in 1..Len(rows), w \in {"unread", "last"}}

\* what fetchChats leaves in chats: a failing users query throws before setChats,
\* a failing sub-query degrades its entry
FetchChatsResult(prev, msgs, patientsData, fail) ==
  IF fail.what = "users" THEN prev
  ELSE ArraySort("doctor", ChatsWithDetails(msgs, patientsData, fail))

\* whether fetchChats reaches setChats
FetchChatsPublishes(fail) == fail.what # "users"

\* what fetchDoctors leaves in doctors: every error is thrown (users query, and
\* inside Promise.all each sub-query), so the catch block skips setDoctors
FetchDoctorsResult(prev, msgs, doctorsData, fail) ==
  IF fail.who # "none" THEN prev
  ELSE ArraySort("patient", DoctorsList(msgs, doctorsData))

\* whether fetchDoctors reaches setDoctors
FetchDoctorsPublishes(fail) == fail.who = "none"

InboxInit ==
  /\ role \in {"doctor", "patient"}
  /\ messages \in MessageTables
  /\ usersRows \in UsersRowOrders
  /\ failing = NoFailure
  /\ chats = <<>>
  /\ doctors = <<>>
  /\ loading = TRUE
  /\ pc = "idle"
  /\ published = FALSE
  /\ removed = "none"
  /\ ApptIdle
  /\ AuthIdle
  /\ OtherIdle

\* MessagesScreen.fetchChats, one whole run against the current table
fetchChats ==
  /\ role = "doctor"
  /\ pc \in {"idle", "removed"}
  /\ \E fail \in FailChoices(usersRows) :
       /\ failing' = fail
       /\ chats' = FetchChatsResult(chats, messages, usersRows, fail)
       /\ published' = FetchChatsPublishes(fail)
  /\ loading' = FALSE
  /\ pc' = "done"
  /\ UNCHANGED <<role, messages, usersRows, doctors, removed, apptVars, authVars, otherVars>>

\* PatientMessagesScreen.fetchDoctors, one whole run against the current table
fetchDoctors ==
  /\ role = "patient"
  /\ pc \in {"idle", "removed"}
  /\ \E fail \in FailChoices(usersRows) :
       /\ failing' = fail
       /\ doctors' = FetchDoctorsResult(doctors, messages, usersRows, fail)
       /\ published' = FetchDoctorsPublishes(fail)
  /\ loading' = FALSE
  /\ pc' = "done"
  /\ UNCHANGED <<role, messages, usersRows, chats, removed, apptVars, authVars, otherVars>>

\* the rows exchanged between the current user and counterpart c
Conversation(msgs, c) ==
  {m \in msgs : \/ (m.sender_id = CurrentUser /\ m.receiver_id = c)
                \/ (m.sender_id = c /\ m.receiver_id = CurrentUser)}

\* the backend loses every message between the current user and one listed
\* counterpart (once per behaviour); the screen then runs the aggregation again
RemoveConversation ==
  /\ pc = "done"
  /\ removed = "none"
  /\ \E i \in 1..Len(usersRows) :
       /\ Conversation(messages, usersRows[i]) # {}
       /\ messages' = messages \ Conversation(messages, usersRows[i])
       /\ removed' = usersRows[i]
  /\ pc' = "removed"
  /\ UNCHANGED <<role, usersRows, failing, chats, doctors, loading, published, apptVars, authVars, otherVars>>

InboxNext == fetchChats \/ fetchDoctors \/ RemoveConversation

SpecInbox == InboxInit /\ [][InboxNext]_vars

-----------------------------------------------------------------------------
(* Claims about the inbox aggregation (checked under SpecInbox)            *)

\* the list the mounted inbox screen displays
Displayed == IF role = "doctor" THEN chats ELSE doctors

\* an entry counts as unread: unreadCount > 0 (doctor), hasUnread (patient)
EntryHasUnread(e) == IF role = "doctor" THEN e.unreadCount > 0 ELSE e.hasUnread

\* an entry shows no last message
EntryHasNoLastMessage(e) ==
  /\ e.lastMessageTime = EmptyTime
  /\ e.lastMessage = (IF role = "doctor" THEN NoMessagesYet ELSE Undefined)

\* the last run has produced and published its list
RunPublished == pc = "done" /\ published

\* the counterparts the users query returned
Returned == {usersRows[i] : i \in 1..Len(usersRows)}

\* C1: a list published by either inbox holds every counterpart the users query
\* returned exactly once, so its length is the number of counterparts,
\* whatever the message table holds.
C1_Completeness ==
  RunPublished =>
    /\ Len(Displayed) = Cardinality(Returned)
    /\ \A c \in Returned : Cardinality({i \in 1..Len(Displayed) : Displayed[i].id = c}) = 1

C1_Witness ==
  /\ RunPublished
  /\ Len(usersRows) = 3
  /\ \E c \in Returned : Conversation(messages, c) = {}
  /\ \E c \in Returned : Conversation(messages, c) # {}

\* C2: when one sub-query of one counterpart fails, the run still publishes a
\* list with every counterpart, and the failing counterpart's entry is degraded
\* in what the failed query was to supply (zero unread, no last message).
C2_DegradeOnPartialFailure ==
  (pc = "done" /\ failing.what \in {"unread", "last"}) =>
    /\ published
    /\ Len(Displayed) = Cardinality(Returned)
    /\ \A i \in 1..Len(Displayed) :
         Displayed[i].id = failing.who =>
           /\ failing.what = "unread" => ~EntryHasUnread(Displayed[i])
           /\ failing.what = "last" => EntryHasNoLastMessage(Displayed[i])

\* C2 on the doctor inbox alone, where the code does degrade
C2_DoctorDegrades ==
  (role = "doctor" /\ pc = "done" /\ failing.what \in {"unread", "last"}) =>
    /\ published
    /\ Len(chats) = Cardinality(Returned)
    /\ \A i \in 1..Len(chats) :
         chats[i].id = failing.who =>
           /\ failing.what = "unread" => chats[i].unreadCount = 0
           /\ failing.what = "last" => EntryHasNoLastMessage(chats[i])

\* C3: in a published list every entry with unread messages precedes every
\* entry without.
C3_UnreadFirst ==
  RunPublished =>
    \A i, j \in 1..Len(Displayed) :
      (EntryHasUnread(Displayed[i]) /\ ~EntryHasUnread(Displayed[j])) => i < j

\* the sort had to move an unread counterpart in front of one without unread
C3_Witness ==
  /\ RunPublished
  /\ Len(usersRows) = 3
  /\ UnreadCountQuery(messages, usersRows[1], CurrentUser) = 0
  /\ UnreadCountQuery(messages, usersRows[3], CurrentUser) > 0
  /\ failing = NoFailure
  /\ EntryHasUnread(Displayed[1])
  /\ ~EntryHasUnread(Displayed[3])

\* C4: in a published list, two entries of the same unread status (both with
\* unread messages, or both without) are in non-increasing order of last-message
\* timestamp, an entry without a timestamp after the entries with one.
\* (Stated for the runs in which every query succeeded.)
C4_TimestampOrderWithinGroups ==
  (RunPublished /\ failing = NoFailure) =>
    \A i, j \in 1..Len(Displayed) :
      (i < j /\ EntryHasUnread(Displayed[i]) = EntryHasUnread(Displayed[j])) =>
        \/ ~TruthyTime(Displayed[j].lastMessageTime)
        \/ /\ TruthyTime(Displayed[i].lastMessageTime)
           /\ Displayed[i].lastMessageTime >= Displayed[j].lastMessageTime

\* C5: in a published list no counterpart without messages stands before a
\* counterpart that has exchanged a message with the current user.
\* (Stated for the runs in which every query succeeded.)
C5_NoMessageCounterpartsLast ==
  (RunPublished /\ failing = NoFailure) =>
    \A i, j \in 1..Len(Displayed) :
      (i < j) => ~(/\ Conversation(messages, Displayed[i].id) = {}
                   /\ Conversation(messages, Displayed[j].id) # {})

\* C6: after every message between the user and a counterpart was removed and
\* the aggregation has run again and published, the counterpart's entry is still
\* there, once, with no last message and no unread messages.
C6_EmptyConversation ==
  (RunPublished /\ removed # "none") =>
    /\ Cardinality({i \in 1..Len(Displayed) : Displayed[i].id = removed}) = 1
    /\ \A i \in 1..Len(Displayed) :
         Displayed[i].id = removed =>
           /\ EntryHasNoLastMessage(Displayed[i])
           /\ ~EntryHasUnread(Displayed[i])
           /\ role = "doctor" => Displayed[i].unreadCount = 0

\* the run after the removal published, other conversations still holding unread rows
C6_Witness ==
  /\ RunPublished
  /\ removed # "none"
  /\ \E m \in messages : m.receiver_id = CurrentUser /\ ~m.read

\* C7: when every query of the run succeeded, each entry's last message is the
\* latest row exchanged between the current user and that counterpart (none if
\* there is no such row), and its unread figure counts exactly the unread rows
\* the counterpart sent to the current user.
C7_SummaryValues ==
  (RunPublished /\ failing = NoFailure) =>
    \A i \in 1..Len(Displayed) :
      LET e == Displayed[i]
          conv == Conversation(messages, e.id)
          unread == {m \in messages : m.sender_id = e.id /\ m.receiver_id = CurrentUser /\ ~m.read}
      IN /\ conv = {} => EntryHasNoLastMessage(e)
         /\ conv # {} =>
              \E m \in conv :
                /\ \A n \in conv : n.created_at <= m.created_at
                /\ e.lastMessage = m.message
                /\ e.lastMessageTime = m.created_at
         /\ EntryHasUnread(e) = (unread # {})
         /\ role = "doctor" => e.unreadCount = Cardinality(unread)

\* an entry whose counterpart also has later third-party traffic and read rows
C7_Witness ==
  /\ RunPublished
  /\ failing = NoFailure
  /\ \E i \in 1..Len(Displayed) :
       /\ Conversation(messages, Displayed[i].id) # {}
       /\ \E m \in messages :
            /\ m.sender_id = Displayed[i].id
            /\ m.receiver_id # CurrentUser
            /\ \A n \in Conversation(messages, Displayed[i].id) : n.created_at < m.created_at
       /\ \E m \in messages : m.sender_id = Displayed[i].id /\ m.receiver_id = CurrentUser /\ m.read

-----------------------------------------------------------------------------
(* Appointments: the bookings screens of both roles over one backend table. *)
(* One doctor and one patient; every row of the table is theirs.            *)

\* .order('date', { ascending }) over the rows of the table, as list items
RECURSIVE OrderRows(_, _, _)
OrderRows(tbl, ids, ascending) ==
  IF ids = {} THEN <<>>
  ELSE LET first == CHOOSE i \in ids : \A j \in ids :
                      IF ascending
                      THEN tbl[i].date < tbl[j].date \/ (tbl[i].date = tbl[j].date /\ i <= j)
                      ELSE tbl[i].date > tbl[j].date \/ (tbl[i].date = tbl[j].date /\ i <= j)
       IN <<[id |-> first, date |-> tbl[first].date, status |-> tbl[first].status]>>
            \o OrderRows(tbl, ids \ {first}, ascending)

\* (mutant) the update without its .eq("id", id) filter
RescheduleRowsNoFilter(tbl, id, d) ==
  [i \in DOMAIN tbl |-> [tbl[i] EXCEPT !.date = d, !.status = "rescheduled"]]

\* supabase.from("appointments").update({ date, status: "rescheduled" }).eq("id", id)
RescheduleRows(tbl, id, d) ==
  [i \in DOMAIN tbl |-> IF i = id THEN [tbl[i] EXCEPT !.date = d, !.status = "rescheduled"] ELSE tbl[i]]

\* supabase.from("appointments").update({ status }).eq("id", id)
SetStatusRows(tbl, id, st) ==
  [i \in DOMAIN tbl |-> IF i = id THEN [tbl[i] EXCEPT !.status = st] ELSE tbl[i]]

\* (mutant) the local update that keeps the old date
RescheduleItemsStatusOnly(list, id, d) ==
  [i \in DOMAIN list |->
     IF list[i].id = id THEN [list[i] EXCEPT !.status = "rescheduled"] ELSE list[i]]

\* prev.map((app) => app.id === id ? { ...app, date, status: "rescheduled" } : app)
RescheduleItems(list, id, d) ==
  [i \in DOMAIN list |->
     IF list[i].id = id THEN [list[i] EXCEPT !.date = d, !.status = "rescheduled"] ELSE list[i]]

\* prev.map((app) => app.id === id ? { ...app, status } : app)
SetStatusItems(list, id, st) ==
  [i \in DOMAIN list |-> IF list[i].id = id THEN [list[i] EXCEPT !.status = st] ELSE list[i]]

\* renderAppointmentItem: Reschedule and Cancel are offered unless canceled or completed
DoctorMayChange(item) == item.status # "canceled" /\ item.status # "completed"

\* renderAppointmentItem: Complete Payment is offered on payment_pending items
DoctorMayComplete(item) == item.status = "payment_pending"

\* patient renderAppointmentItem: Cancel Appointment is offered on these statuses
PatientMayCancel(item) == item.status \in {"upcoming", "rescheduled", "payment_pending"}

ApptInit ==
  /\ ApptIdle
  /\ InboxIdle
  /\ AuthIdle
  /\ OtherIdle

\* the outcome of a backend call as the handler sees it
Outcome(ok) == IF ok THEN "ok" ELSE "error"

DoctorActs == actor \in {"both", "doctor"}
PatientActs == actor \in {"both", "patient"}

\* DoctorBookingsScreen.fetchAppointments
DoctorFetchAppointments ==
  /\ DoctorActs
  /\ \E ok \in BOOLEAN :
       /\ docAppointments' = IF ok THEN OrderRows(appointments, DOMAIN appointments, TRUE)
                             ELSE docAppointments
       /\ lastOp' = [name |-> "fetchAppointments", result |-> Outcome(ok)]
  /\ UNCHANGED <<appointments, patAppointments, selectedAppointment, newDate, showDatePicker,
                 actor, inboxVars, authVars, otherVars>>

\* DoctorBookingsScreen.handleReschedule(item)
handleReschedule ==
  /\ DoctorActs
  /\ \E i \in 1..Len(docAppointments) :
       /\ DoctorMayChange(docAppointments[i])
       /\ selectedAppointment' = docAppointments[i]
       /\ newDate' = docAppointments[i].date
  /\ showDatePicker' = TRUE
  /\ lastOp' = [name |-> "handleReschedule", result |-> "none"]
  /\ UNCHANGED <<appointments, docAppointments, patAppointments, actor, inboxVars, authVars,
                 otherVars>>

\* DateTimePicker onChange with a selected date
pickDate ==
  /\ DoctorActs
  /\ showDatePicker
  /\ \E d \in Dates : newDate' = d
  /\ lastOp' = [name |-> "pickDate", result |-> "none"]
  /\ UNCHANGED <<appointments, docAppointments, patAppointments, selectedAppointment,
                 showDatePicker, actor, inboxVars, authVars, otherVars>>

\* the close button of the picker
closeDatePicker ==
  /\ DoctorActs
  /\ showDatePicker
  /\ showDatePicker' = FALSE
  /\ lastOp' = [name |-> "closeDatePicker", result |-> "none"]
  /\ UNCHANGED <<appointments, docAppointments, patAppointments, selectedAppointment,
                 newDate, actor, inboxVars, authVars, otherVars>>

\* "Confirm New Time": confirmReschedule() and setShowDatePicker(false)
confirmReschedule ==
  /\ DoctorActs
  /\ showDatePicker
  /\ showDatePicker' = FALSE
  /\ IF selectedAppointment = NoAppointment
     THEN /\ lastOp' = [name |-> "confirmReschedule", result |-> "none"]
          /\ UNCHANGED <<appointments, docAppointments>>
     ELSE \E ok \in BOOLEAN :
            /\ lastOp' = [name |-> "confirmReschedule", result |-> Outcome(ok)]
            /\ IF ok
               THEN /\ appointments' = RescheduleRows(appointments, selectedAppointment.id, newDate)
                    /\ docAppointments' = RescheduleItems(docAppointments, selectedAppointment.id, newDate)
               ELSE UNCHANGED <<appointments, docAppointments>>
  /\ UNCHANGED <<patAppointments, selectedAppointment, newDate, actor, inboxVars, authVars,
                 otherVars>>

\* DoctorBookingsScreen.handleCancel(item), "Yes", cancelAppointment(item.id)
doctorCancelAppointment ==
  /\ DoctorActs
  /\ \E i \in 1..Len(docAppointments), ok \in BOOLEAN :
       /\ DoctorMayChange(docAppointments[i])
       /\ lastOp' = [name |-> "cancelAppointment", result |-> Outcome(ok)]
       /\ IF ok
          THEN /\ appointments' = SetStatusRows(appointments, docAppointments[i].id, "canceled")
               /\ docAppointments' = SetStatusItems(docAppointments, docAppointments[i].id, "canceled")
          ELSE UNCHANGED <<appointments, docAppointments>>
  /\ UNCHANGED <<patAppointments, selectedAppointment, newDate, showDatePicker, actor,
                 inboxVars, authVars, otherVars>>

\* DoctorBookingsScreen.handleCompletePayment(item), "Yes", completePayment(item.id)
completePayment ==
  /\ DoctorActs
  /\ \E i \in 1..Len(docAppointments), ok \in BOOLEAN :
       /\ DoctorMayComplete(docAppointments[i])
       /\ lastOp' = [name |-> "completePayment", result |-> Outcome(ok)]
       /\ IF ok
          THEN /\ appointments' = SetStatusRows(appointments, docAppointments[i].id, "payment_completed")
               /\ docAppointments' = SetStatusItems(docAppointments, docAppointments[i].id, "payment_completed")
          ELSE UNCHANGED <<appointments, docAppointments>>
  /\ UNCHANGED <<patAppointments, selectedAppointment, newDate, showDatePicker, actor,
                 inboxVars, authVars, otherVars>>

\* PatientBookingsScreen.fetchAppointments
PatientFetchAppointments ==
  /\ PatientActs
  /\ \E ok \in BOOLEAN :
       /\ patAppointments' = IF ok THEN OrderRows(appointments, DOMAIN appointments, FALSE)
                             ELSE patAppointments
       /\ lastOp' = [name |-> "fetchAppointments", result |-> Outcome(ok)]
  /\ UNCHANGED <<appointments, docAppointments, selectedAppointment, newDate, showDatePicker,
                 actor, inboxVars, authVars, otherVars>>

\* PatientBookingsScreen.confirmBooking: insert ... status 'payment_pending', .select(),
\* and the returned row is put in front of the list
confirmBooking ==
  /\ PatientActs
  /\ Len(appointments) < MaxAppts
  /\ \E d \in Dates, ok \in BOOLEAN :
       /\ lastOp' = [name |-> "confirmBooking", result |-> Outcome(ok)]
       /\ IF ok
          THEN /\ appointments' = Append(appointments, [date |-> d, status |-> "payment_pending"])
               /\ patAppointments' = <<[id |-> Len(appointments) + 1, date |-> d,
                                        status |-> "payment_pending"]>> \o patAppointments
          ELSE UNCHANGED <<appointments, patAppointments>>
  /\ UNCHANGED <<docAppointments, selectedAppointment, newDate, showDatePicker, actor,
                 inboxVars, authVars, otherVars>>

\* BookAppointment.handleBookAppointment: insert ... status 'upcoming'
handleBookAppointment ==
  /\ PatientActs
  /\ Len(appointments) < MaxAppts
  /\ \E d \in Dates, ok \in BOOLEAN :
       /\ lastOp' = [name |-> "handleBookAppointment", result |-> Outcome(ok)]
       /\ appointments' = IF ok THEN Append(appointments, [date |-> d, status |-> "upcoming"])
                          ELSE appointments
  /\ UNCHANGED <<docAppointments, patAppointments, selectedAppointment, newDate, showDatePicker,
                 actor, inboxVars, authVars, otherVars>>

\* PatientBookingsScreen.handleCancelAppointment(id), "Yes", cancelAppointment(id)
patientCancelAppointment ==
  /\ PatientActs
  /\ \E i \in 1..Len(patAppointments), ok \in BOOLEAN :
       /\ PatientMayCancel(patAppointments[i])
       /\ lastOp' = [name |-> "cancelAppointment", result |-> Outcome(ok)]
       /\ IF ok
          THEN /\ appointments' = SetStatusRows(appointments, patAppointments[i].id, "canceled")
               /\ patAppointments' = SetStatusItems(patAppointments, patAppointments[i].id, "canceled")
          ELSE UNCHANGED <<appointments, patAppointments>>
  /\ UNCHANGED <<docAppointments, selectedAppointment, newDate, showDatePicker, actor,
                 inboxVars, authVars, otherVars>>

ApptNext ==
  \/ DoctorFetchAppointments
  \/ handleReschedule
  \/ pickDate
  \/ closeDatePicker
  \/ confirmReschedule
  \/ doctorCancelAppointment
  \/ completePayment
  \/ PatientFetchAppointments
  \/ confirmBooking
  \/ handleBookAppointment
  \/ patientCancelAppointment

SpecAppt == ApptInit /\ [][ApptNext]_vars

-----------------------------------------------------------------------------
(* Claims about the appointment handlers (checked under SpecAppt)          *)

\* C8: once the backend status of an appointment is 'canceled', no step of
\* either app changes its status or its date.
C8_CanceledIsTerminal ==
  [][\A id \in DOMAIN appointments :
       appointments[id].status = "canceled" => appointments'[id] = appointments[id]]_vars

-----------------------------------------------------------------------------
(* One session alone on the appointments table: SpecApptSolo               *)

\* statuses of the rows the table holds when the screen is opened
SeedStatuses == {"upcoming", "payment_pending"}

SeedRows == [date : Dates, status : SeedStatuses]

SeedTables == UNION {[1..n -> SeedRows] : n \in 0..MaxAppts}

\* either bookings screen is opened on an existing table, and only its
\* session writes to the table from then on
ApptSoloInit ==
  /\ appointments \in SeedTables
  /\ actor \in {"doctor", "patient"}
  /\ docAppointments = <<>>
  /\ patAppointments = <<>>
  /\ selectedAppointment = NoAppointment
  /\ newDate = 1
  /\ showDatePicker = FALSE
  /\ lastOp = NoOp
  /\ InboxIdle
  /\ AuthIdle
  /\ OtherIdle

SpecApptSolo == ApptSoloInit /\ [][ApptNext]_vars

\* every item of a local list shows the date and the status of its backend row
ShowsBackendValues(list) ==
  \A i \in DOMAIN list :
    /\ list[i].id \in DOMAIN appointments
    /\ list[i].date = appointments[list[i].id].date
    /\ list[i].status = appointments[list[i].id].status

\* C13: with a single session writing, after every step of the doctor screen
\* and of the patient screen each appointment shown locally has the status and
\* the date of its backend row, and a step whose backend call failed leaves
\* the backend rows and the local lists unchanged.
C13_LocalListMatchesBackend ==
  [][/\ ShowsBackendValues(docAppointments)'
     /\ ShowsBackendValues(patAppointments)'
     /\ lastOp'.result = "error" =>
          UNCHANGED <<appointments, docAppointments, patAppointments>>]_vars

\* a doctor list of several items right after a successful reschedule of one
\* of them to another date
C13_Witness ==
  /\ actor = "doctor"
  /\ lastOp = [name |-> "confirmReschedule", result |-> "ok"]
  /\ Len(docAppointments) > 1
  /\ \E i \in DOMAIN docAppointments :
       /\ docAppointments[i].status = "rescheduled"
       /\ docAppointments[i].id = selectedAppointment.id
       /\ docAppointments[i].date # selectedAppointment.date

\* C16: a confirmed doctor reschedule sets the date of the appointment that
\* was selected when the picker was opened to the picked date and its status
\* to 'rescheduled', in the backend and in the local list; no other
\* appointment's date or status changes in either, and if the update errors
\* the local list (and the backend) is unchanged.
C16_RescheduleEffectAndFrame ==
  [][lastOp'.name = "confirmReschedule" =>
       IF lastOp'.result = "ok"
       THEN /\ DOMAIN appointments' = DOMAIN appointments
            /\ \A id \in DOMAIN appointments :
                 IF id = selectedAppointment.id
                 THEN /\ appointments'[id].date = newDate
                      /\ appointments'[id].status = "rescheduled"
                 ELSE appointments'[id] = appointments[id]
            /\ Len(docAppointments') = Len(docAppointments)
            /\ \A i \in DOMAIN docAppointments :
                 IF docAppointments[i].id = selectedAppointment.id
                 THEN docAppointments'[i] = [id |-> selectedAppointment.id, date |-> newDate,
                                             status |-> "rescheduled"]
                 ELSE docAppointments'[i] = docAppointments[i]
            /\ patAppointments' = patAppointments
       ELSE UNCHANGED <<appointments, docAppointments, patAppointments>>]_vars

\* a reschedule of one of two listed appointments has just succeeded, to a
\* date other than the one it had, and the other appointment is not rescheduled
C16_Witness ==
  /\ lastOp = [name |-> "confirmReschedule", result |-> "ok"]
  /\ Len(appointments) >= 2
  /\ Len(docAppointments) = Len(appointments)
  /\ appointments[selectedAppointment.id].date = newDate
  /\ newDate # selectedAppointment.date
  /\ \E id \in DOMAIN appointments :
       id # selectedAppointment.id /\ appointments[id].status # "rescheduled"

\* the error case of C16 happens
C16_ErrorCaseReached ==
  /\ lastOp = [name |-> "confirmReschedule", result |-> "error"]
  /\ newDate # selectedAppointment.date
  /\ Len(docAppointments) >= 2

-----------------------------------------------------------------------------
(* Authentication and role routing                                         *)
(* context/auth-context.tsx AuthProvider, app/_layout.tsx RootLayoutNav,   *)
(* and the sign-out handlers of the two "more" screens                     *)

\* the accounts of the auth service
Emails == {"d@x", "p@x"}

\* users table as seeded: one row per account, role by account
SeedRole(e) == IF e = "d@x" THEN "doctor" ELSE "patient"

\* users.id is generated by the table (gen_random_uuid), users.name is given
RowId(e) == "row:" \o e
RowName(e) == "name:" \o e

\* session.user of the auth service: its own id, the role claim
\* 'authenticated', no name
SessionUser(s) ==
  IF s = NoSession THEN NoUser
  ELSE [email |-> s, id |-> "auth:" \o s, role |-> "authenticated", name |-> ""]

\* .from('users').select('role, name, id').eq('email', email).single():
\* the row; its role is NoRow when no row matches (.single() then reports
\* an error and no data)
UsersRowByEmail(tbl, email) ==
  IF email \in DOMAIN tbl /\ tbl[email] # NoRow
  THEN [role |-> tbl[email], name |-> RowName(email), id |-> RowId(email)]
  ELSE [role |-> NoRow, name |-> "", id |-> ""]

\* getUserRole, after the query: null on error / no data, else the row's role
RoleResult(tbl, u) ==
  IF UsersRowByEmail(tbl, u.email).role = NoRow THEN "null"
  ELSE UsersRowByEmail(tbl, u.email).role

\* getUserRole's setUser({...user, role, name, id}) over the user of its closure
UserWithRole(tbl, u) ==
  [email |-> u.email,
   id    |-> UsersRowByEmail(tbl, u.email).id,
   role  |-> UsersRowByEmail(tbl, u.email).role,
   name  |-> UsersRowByEmail(tbl, u.email).name]

\* the .then of the root layout: the group it replaces the route with
RedirectTarget(r) ==
  IF r = "doctor" THEN "(doctor)"
  ELSE IF r = "patient" THEN "(patient)"
  ELSE "none"

RoleAreas == {"(doctor)", "(patient)"}

RemoveAt(seq, i) == SubSeq(seq, 1, i - 1) \o SubSeq(seq, i + 1, Len(seq))

\* the app starts: loading, getSession in flight, the entry route shown
\* behind the spinner; the device may hold a session of an earlier run
AuthInit ==
  /\ usersTable = [e \in Emails |-> SeedRole(e)]
  /\ authSession \in Emails \cup {NoSession}
  /\ session = NoSession
  /\ user = NoUser
  /\ authLoading = TRUE
  /\ segment = "index"
  /\ getSessionPending = TRUE
  /\ authEvents = <<>>
  /\ roleLookups = <<>>
  /\ effectPending = TRUE
  /\ signInCall = NoCall
  /\ signOutCall = FALSE
  /\ nav = "none"
  /\ signIns = 0
  /\ refreshes = 0
  /\ InboxIdle
  /\ ApptIdle
  /\ OtherIdle

\* supabase.auth.getSession().then(...)
getSessionReturn ==
  /\ getSessionPending
  /\ getSessionPending' = FALSE
  /\ session' = authSession
  /\ user' = SessionUser(authSession)
  /\ authLoading' = FALSE
  /\ effectPending' = TRUE
  /\ nav' = "none"
  /\ UNCHANGED <<usersTable, authSession, segment, authEvents, roleLookups, signInCall,
                 signOutCall, signIns, refreshes, inboxVars, apptVars, otherVars>>

\* the auth service raises a state change on its own (a token refresh)
tokenRefreshed ==
  /\ authSession # NoSession
  /\ refreshes < MaxRefreshes
  /\ refreshes' = refreshes + 1
  /\ authEvents' = Append(authEvents, authSession)
  /\ nav' = "none"
  /\ UNCHANGED <<usersTable, authSession, session, user, authLoading, segment,
                 getSessionPending, roleLookups, effectPending, signInCall, signOutCall,
                 signIns, inboxVars, apptVars, otherVars>>

\* the onAuthStateChange callback, for the oldest undelivered state change
onAuthStateChange ==
  /\ authEvents # <<>>
  /\ authEvents' = Tail(authEvents)
  /\ session' = Head(authEvents)
  /\ user' = SessionUser(Head(authEvents))
  /\ authLoading' = FALSE
  /\ effectPending' = TRUE
  /\ nav' = "none"
  /\ UNCHANGED <<usersTable, authSession, segment, getSessionPending, roleLookups,
                 signInCall, signOutCall, signIns, refreshes, inboxVars, apptVars, otherVars>>

\* the effect of RootLayoutNav, run after user, loading or segments changed
RootLayoutEffect ==
  /\ effectPending
  /\ IF authLoading
     THEN /\ effectPending' = FALSE
          /\ nav' = "none"
          /\ UNCHANGED <<segment, roleLookups>>
     ELSE IF user = NoUser /\ segment # "(auth)"
     THEN /\ segment' = "(auth)"
          /\ nav' = "(auth)"
          /\ effectPending' = TRUE
          /\ UNCHANGED roleLookups
     ELSE IF user # NoUser /\ segment = "(auth)"
     THEN /\ roleLookups' = Append(roleLookups, [user |-> user, origin |-> "effect"])
          /\ effectPending' = FALSE
          /\ nav' = "none"
          /\ UNCHANGED segment
     ELSE /\ effectPending' = FALSE
          /\ nav' = "none"
          /\ UNCHANGED <<segment, roleLookups>>
  /\ UNCHANGED <<usersTable, authSession, session, user, authLoading, getSessionPending,
                 authEvents, signInCall, signOutCall, signIns, refreshes, inboxVars, apptVars, otherVars>>

\* the users query of a getUserRole call returns; the call was made by the
\* root layout's effect (which then redirects) or by signIn (which does not)
getUserRoleReturn(i) ==
  /\ i \in DOMAIN roleLookups
  /\ roleLookups' = RemoveAt(roleLookups, i)
  /\ IF RoleResult(usersTable, roleLookups[i].user) = "null"
     THEN /\ nav' = "none"
          /\ UNCHANGED <<user, segment, effectPending>>
     ELSE /\ user' = UserWithRole(usersTable, roleLookups[i].user)
          /\ effectPending' = TRUE
          /\ IF roleLookups[i].origin = "effect"
             THEN /\ nav' = RedirectTarget(RoleResult(usersTable, roleLookups[i].user))
                  /\ segment' = RedirectTarget(RoleResult(usersTable, roleLookups[i].user))
             ELSE /\ nav' = "none"
                  /\ UNCHANGED segment
  /\ signInCall' = IF roleLookups[i].origin = "signIn" THEN NoCall ELSE signInCall
  /\ UNCHANGED <<usersTable, authSession, session, authLoading, getSessionPending, authEvents,
                 signOutCall, signIns, refreshes, inboxVars, apptVars, otherVars>>

\* the login screen calls signIn(email, password); the call keeps the user
\* of the render it was created in
signIn(e) ==
  /\ segment = "(auth)"
  /\ ~authLoading
  /\ signInCall = NoCall
  /\ signIns < MaxSignIns
  /\ signIns' = signIns + 1
  /\ signInCall' = [email |-> e, user |-> user, stage |-> "password"]
  /\ nav' = "none"
  /\ UNCHANGED <<usersTable, authSession, session, user, authLoading, segment,
                 getSessionPending, authEvents, roleLookups, effectPending, signOutCall,
                 refreshes, inboxVars, apptVars, otherVars>>

\* signInWithPassword returns: on success the service holds the session and
\* raises SIGNED_IN, and signIn goes on to `await getUserRole()`
signInWithPasswordReturn ==
  /\ signInCall.stage = "password"
  /\ \E ok \in BOOLEAN :
       IF ~ok
       THEN /\ signInCall' = NoCall
            /\ UNCHANGED <<authSession, authEvents, roleLookups>>
       ELSE /\ authSession' = signInCall.email
            /\ authEvents' = Append(authEvents, signInCall.email)
            /\ IF signInCall.user = NoUser
               THEN /\ signInCall' = NoCall
                    /\ UNCHANGED roleLookups
               ELSE /\ signInCall' = [signInCall EXCEPT !.stage = "role"]
                    /\ roleLookups' = Append(roleLookups,
                                             [user |-> signInCall.user, origin |-> "signIn"])
  /\ nav' = "none"
  /\ UNCHANGED <<usersTable, session, user, authLoading, segment, getSessionPending,
                 effectPending, signOutCall, signIns, refreshes, inboxVars, apptVars, otherVars>>

\* "Sign Out" confirmed on the more screen of a role area
handleSignOut ==
  /\ segment \in RoleAreas
  /\ ~signOutCall
  /\ signOutCall' = TRUE
  /\ nav' = "none"
  /\ UNCHANGED <<usersTable, authSession, session, user, authLoading, segment,
                 getSessionPending, authEvents, roleLookups, effectPending, signInCall,
                 signIns, refreshes, inboxVars, apptVars, otherVars>>

\* "Delete" confirmed on the more screen: the users row with id = user.id
\* is deleted (the auth account is not), then the user is signed out
confirmDeleteAccount ==
  /\ segment \in RoleAreas
  /\ ~signOutCall
  /\ \E ok \in BOOLEAN :
       IF ~ok
       THEN UNCHANGED <<usersTable, signOutCall>>
       ELSE /\ usersTable' = [e \in Emails |->
                                IF usersTable[e] # NoRow /\ RowId(e) = user.id
                                THEN NoRow ELSE usersTable[e]]
            /\ signOutCall' = TRUE
  /\ nav' = "none"
  /\ UNCHANGED <<authSession, session, user, authLoading, segment, getSessionPending,
                 authEvents, roleLookups, effectPending, signInCall, signIns, refreshes,
                 inboxVars, apptVars, otherVars>>

\* supabase.auth.signOut() returns: the session is gone and SIGNED_OUT is
\* raised; signOut sets the user to null and the screen replaces the route
\* with the login screen
signOutReturn ==
  /\ signOutCall
  /\ signOutCall' = FALSE
  /\ authSession' = NoSession
  /\ authEvents' = Append(authEvents, NoSession)
  /\ user' = NoUser
  /\ segment' = "(auth)"
  /\ nav' = "(auth)"
  /\ effectPending' = TRUE
  /\ UNCHANGED <<usersTable, session, authLoading, getSessionPending, roleLookups,
                 signInCall, signIns, refreshes, inboxVars, apptVars, otherVars>>

AuthNext ==
  \/ getSessionReturn
  \/ tokenRefreshed
  \/ onAuthStateChange
  \/ RootLayoutEffect
  \/ \E i \in 1..Len(roleLookups) : getUserRoleReturn(i)
  \/ \E e \in Emails : signIn(e)
  \/ signInWithPasswordReturn
  \/ handleSignOut
  \/ confirmDeleteAccount
  \/ signOutReturn

SpecAuth == AuthInit /\ [][AuthNext]_vars

\* backend calls return, callbacks are delivered and effects run; nothing
\* obliges the user to press a button or the service to refresh a token
SpecAuthFair ==
  /\ SpecAuth
  /\ WF_vars(getSessionReturn)
  /\ WF_vars(onAuthStateChange)
  /\ WF_vars(RootLayoutEffect)
  /\ WF_vars(\E i \in 1..Len(roleLookups) : getUserRoleReturn(i))
  /\ WF_vars(signInWithPasswordReturn)
  /\ WF_vars(signOutReturn)

-----------------------------------------------------------------------------
(* Claims about role routing (checked under SpecAuth / SpecAuthFair)       *)

\* the role the users table holds for the account signed in at the auth service
SignedInRole ==
  IF authSession = NoSession THEN "null" ELSE RoleResult(usersTable, SessionUser(authSession))

\* C9: the root layout replaces the route with the doctor area only when the
\* users-table role of the signed-in user is 'doctor', and with the patient
\* area only when it is 'patient'; it does so neither while the auth context
\* is loading nor when the role lookup returned null.
C9_RoleRoutingSafety ==
  [][nav' \in RoleAreas =>
       /\ ~authLoading
       /\ SignedInRole # "null"
       /\ nav' = RedirectTarget(SignedInRole)]_vars

\* what holds of every redirect: it is made while not loading, by a lookup
\* that returned a role, to the area of the role the users table holds for
\* the user the lookup was made for (who becomes the context user)
C9_RedirectFollowsLookup ==
  [][nav' \in RoleAreas =>
       /\ ~authLoading
       /\ RoleResult(usersTable, user') # "null"
       /\ nav' = RedirectTarget(RoleResult(usersTable, user'))
       /\ user'.role = RoleResult(usersTable, user')]_vars

\* C10: whenever loading is false and a signed-in user is on a screen of the
\* (auth) group, the app eventually shows the doctor area or the patient area
\* (or, short of that, the user has been signed out in the meantime).
C10_RoleRoutingLiveness ==
  (~authLoading /\ user # NoUser /\ segment = "(auth)")
    ~> (segment \in RoleAreas \/ user = NoUser)

\* what RootLayoutNav renders: the spinner while loading, else the route (<Slot />)
Rendered == IF authLoading THEN "spinner" ELSE segment

\* no account signed in and nothing left that the auth service still has to deliver
SignedOutAndSettled ==
  /\ ~authLoading
  /\ authSession = NoSession
  /\ authEvents = <<>>
  /\ user = NoUser

\* C11: when loading is false, no user is signed in and the screen is outside
\* the (auth) group, the next navigation replaces the route with the login
\* screen; when signOut completes the context user is null and the app is on
\* the login screen, and it stays so while nobody signs in; while loading is
\* true the spinner is rendered and no protected screen.
C11_AuthProtection ==
  [][/\ (~authLoading /\ user = NoUser /\ segment # "(auth)" /\ nav' # "none")
          => nav' = "(auth)"
     /\ (signOutCall /\ ~signOutCall') => (user' = NoUser /\ segment' = "(auth)")
     /\ (SignedOutAndSettled /\ segment = "(auth)" /\ authSession' = NoSession)
          => (user' = NoUser /\ segment' = "(auth)")
     /\ authLoading' => Rendered' = "spinner"]_vars

\* the parts of C11 that do not involve a role lookup outliving its session
C11_ImmediateProtection ==
  [][/\ (signOutCall /\ ~signOutCall') => (user' = NoUser /\ segment' = "(auth)")
     /\ authLoading' => Rendered' = "spinner"
     /\ (RootLayoutEffect /\ ~authLoading /\ user = NoUser /\ segment # "(auth)")
          => nav' = "(auth)"]_vars

-----------------------------------------------------------------------------
(* The doctor inbox with its realtime subscription: SpecInboxRealtime      *)
(* (doctor)/index.tsx MessagesScreen: subscription effect and fetchChats   *)

\* messages patients insert while the screen is mounted
MaxInserts == 2

\* a row inserted now: ids and timestamps grow with the table
NextMessageId(msgs) == Cardinality(msgs) + 1

InsertedRow(msgs, sender, receiver) ==
  [id |-> NextMessageId(msgs), sender_id |-> sender, receiver_id |-> receiver,
   read |-> FALSE, created_at |-> NextMessageId(msgs),
   message |-> ToString(NextMessageId(msgs))]

\* a fetchChats call that has sent no query yet
StartedRun == [stage |-> "started", snapshot |-> {}]

\* the screen is mounted for a signed-in doctor: the effect has called
\* fetchChats and subscribed to the INSERTs with receiver_id = user.id
RealtimeInit ==
  /\ role = "doctor"
  /\ messages = {}
  /\ usersRows \in UsersRowOrders
  /\ failing = NoFailure
  /\ chats = <<>>
  /\ doctors = <<>>
  /\ loading = TRUE
  /\ pc = "idle"
  /\ published = FALSE
  /\ removed = "none"
  /\ fetchRuns = <<StartedRun>>
  /\ rtEvents = 0
  /\ inserts = 0
  /\ completedRuns = 0
  /\ ApptIdle
  /\ AuthIdle
  /\ NotRtIdle

\* a patient sends the doctor a message: the backend inserts the row and
\* raises an INSERT event that matches the subscription's filter
patientInsertsMessage ==
  /\ inserts < MaxInserts
  /\ \E i \in 1..Len(usersRows) :
       messages' = messages \cup {InsertedRow(messages, usersRows[i], CurrentUser)}
  /\ inserts' = inserts + 1
  /\ rtEvents' = rtEvents + 1
  /\ UNCHANGED <<role, usersRows, failing, chats, doctors, loading, pc, published, removed,
                 fetchRuns, completedRuns, apptVars, authVars, notRtVars>>

\* the subscription callback: () => { fetchChats() }
onRealtimeInsert ==
  /\ rtEvents > 0
  /\ rtEvents' = rtEvents - 1
  /\ fetchRuns' = Append(fetchRuns, StartedRun)
  /\ UNCHANGED <<inboxVars, inserts, completedRuns, apptVars, authVars, notRtVars>>

\* the backend answers the queries of one run (taken at one instant of the table)
fetchChatsQueriesAnswered(i) ==
  /\ i \in DOMAIN fetchRuns
  /\ fetchRuns[i].stage = "started"
  /\ fetchRuns' = [fetchRuns EXCEPT ![i] = [stage |-> "read", snapshot |-> messages]]
  /\ UNCHANGED <<inboxVars, rtEvents, inserts, completedRuns, apptVars, authVars, notRtVars>>

\* one run resumes after its awaits: sort, setChats, setLoading(false)
fetchChatsCompletes(i) ==
  /\ i \in DOMAIN fetchRuns
  /\ fetchRuns[i].stage = "read"
  /\ chats' = FetchChatsResult(chats, fetchRuns[i].snapshot, usersRows, NoFailure)
  /\ loading' = FALSE
  /\ published' = TRUE
  /\ fetchRuns' = RemoveAt(fetchRuns, i)
  /\ completedRuns' = completedRuns + 1
  /\ UNCHANGED <<role, messages, usersRows, failing, doctors, pc, removed, rtEvents, inserts,
                 apptVars, authVars, notRtVars>>

RealtimeNext ==
  \/ patientInsertsMessage
  \/ onRealtimeInsert
  \/ \E i \in 1..Len(fetchRuns) : fetchChatsQueriesAnswered(i)
  \/ \E i \in 1..Len(fetchRuns) : fetchChatsCompletes(i)

SpecInboxRealtime == RealtimeInit /\ [][RealtimeNext]_vars

\* every event was delivered and every run it started has completed
InboxQuiescent == rtEvents = 0 /\ fetchRuns = <<>>

\* C12: once every INSERT event addressed to the doctor was delivered and all
\* outstanding fetchChats runs have completed, the displayed chat list equals
\* the aggregation over the backend's current message table.
C12_InboxConvergence ==
  InboxQuiescent => chats = FetchChatsResult(chats, messages, usersRows, NoFailure)

\* what does hold: the list is the aggregation over the table some run read
C12_ListOfSomeSnapshot ==
  completedRuns > 0 =>
    \E seen \in SUBSET messages : chats = FetchChatsResult(chats, seen, usersRows, NoFailure)

-----------------------------------------------------------------------------
(* Patient booking: SpecBooking                                            *)
(* (patient)/_layout.tsx PatientBookingsScreen (booking modal) and         *)
(* BookAppointment (the Book Appointment screen)                           *)

\* how far the clock runs
MaxNow == 2

\* the doctors the form lists and the payment methods it offers
Doctors == {"doc1"}
PaymentMethods == {"mobile_money", "online_payment"}

\* the row an insert into appointments creates
BookedRow(patient, doctor, date, status, method) ==
  [patient_id |-> patient, doctor_id |-> doctor, date |-> date, status |-> status,
   payment_method |-> method]

\* newAppointment built from data[0] of the insert's .select()
NewAppointment(id, row) ==
  [id |-> id, doctor_id |-> row.doctor_id, date |-> row.date, status |-> row.status,
   payment_method |-> row.payment_method]

\* (mutant) the first check of the modal asking for a doctor only
BookingFormCompleteDoctorOnly(doctor, method) == doctor # NoDoctor

\* PatientBookingsScreen.handleBookAppointment, first check
BookingFormComplete(doctor, method) == doctor # NoDoctor /\ method # NoMethod

\* PatientBookingsScreen.handleBookAppointment, second check (appointmentDate <= now fails)
IsFutureDate(date, t) == date > t

\* the patient opens the bookings screen: empty form, appointmentDate = new Date()
BookingInit ==
  /\ now = 0
  /\ showBookingModal = FALSE
  /\ selectedDoctor = NoDoctor
  /\ appointmentDate = 0
  /\ paymentMethod = NoMethod
  /\ bookingDialog = NoDialog
  /\ appointments = <<>>
  /\ docAppointments = <<>>
  /\ patAppointments = <<>>
  /\ selectedAppointment = NoAppointment
  /\ newDate = 1
  /\ showDatePicker = FALSE
  /\ actor = "patient"
  /\ lastOp = NoOp
  /\ InboxIdle
  /\ AuthIdle
  /\ NotBookIdle

\* time passes
Tick ==
  /\ now < MaxNow
  /\ now' = now + 1
  /\ lastOp' = [name |-> "Tick", result |-> "none"]
  /\ UNCHANGED <<showBookingModal, selectedDoctor, appointmentDate, paymentMethod, bookingDialog,
                 appointments, docAppointments, patAppointments, selectedAppointment, newDate,
                 showDatePicker, actor, inboxVars, authVars, notBookVars>>

\* the "+" button: setShowBookingModal(true); the close button: setShowBookingModal(false)
toggleBookingModal ==
  /\ ~bookingDialog.open
  /\ showBookingModal' = ~showBookingModal
  /\ lastOp' = [name |-> "setShowBookingModal", result |-> "none"]
  /\ UNCHANGED <<now, selectedDoctor, appointmentDate, paymentMethod, bookingDialog,
                 appointments, docAppointments, patAppointments, selectedAppointment, newDate,
                 showDatePicker, actor, inboxVars, authVars, notBookVars>>

\* the form fields of the modal: doctor, date and time, payment method
editBookingForm ==
  /\ showBookingModal
  /\ ~bookingDialog.open
  /\ \/ \E d \in Doctors : selectedDoctor' = d /\ UNCHANGED <<appointmentDate, paymentMethod>>
     \/ \E t \in Dates : appointmentDate' = t /\ UNCHANGED <<selectedDoctor, paymentMethod>>
     \/ \E m \in PaymentMethods : paymentMethod' = m /\ UNCHANGED <<selectedDoctor, appointmentDate>>
  /\ lastOp' = [name |-> "editBookingForm", result |-> "none"]
  /\ UNCHANGED <<now, showBookingModal, bookingDialog,
                 appointments, docAppointments, patAppointments, selectedAppointment, newDate,
                 showDatePicker, actor, inboxVars, authVars, notBookVars>>

\* PatientBookingsScreen.handleBookAppointment: the two checks, then the
\* "Confirm Booking" alert whose Confirm button holds this render's confirmBooking
modalHandleBookAppointment ==
  /\ showBookingModal
  /\ ~bookingDialog.open
  /\ Len(appointments) < MaxAppts
  /\ IF BookingFormComplete(selectedDoctor, paymentMethod) /\ IsFutureDate(appointmentDate, now)
     THEN /\ bookingDialog' = [doctor |-> selectedDoctor, date |-> appointmentDate,
                               method |-> paymentMethod, open |-> TRUE]
          /\ lastOp' = [name |-> "handleBookAppointment", result |-> "asked"]
     ELSE /\ bookingDialog' = bookingDialog
          /\ lastOp' = [name |-> "handleBookAppointment", result |-> "rejected"]
  /\ UNCHANGED <<now, showBookingModal, selectedDoctor, appointmentDate, paymentMethod,
                 appointments, docAppointments, patAppointments, selectedAppointment, newDate,
                 showDatePicker, actor, inboxVars, authVars, notBookVars>>

\* "Cancel" in the alert
declineBooking ==
  /\ bookingDialog.open
  /\ bookingDialog' = NoDialog
  /\ lastOp' = [name |-> "declineBooking", result |-> "declined"]
  /\ UNCHANGED <<now, showBookingModal, selectedDoctor, appointmentDate, paymentMethod,
                 appointments, docAppointments, patAppointments, selectedAppointment, newDate,
                 showDatePicker, actor, inboxVars, authVars, notBookVars>>

\* "Confirm" in the alert: confirmBooking with the form values of its render;
\* on success the returned row goes in front of the list, the modal closes
\* and resetBookingForm runs
modalConfirmBooking ==
  /\ bookingDialog.open
  /\ bookingDialog' = NoDialog
  /\ IF bookingDialog.doctor = NoDoctor
     THEN /\ lastOp' = [name |-> "confirmBooking", result |-> "none"]
          /\ UNCHANGED <<appointments, patAppointments, showBookingModal, selectedDoctor,
                         appointmentDate, paymentMethod>>
     ELSE \E ok \in BOOLEAN :
            /\ lastOp' = [name |-> "confirmBooking", result |-> Outcome(ok)]
            /\ IF ok
               THEN /\ appointments' =
                         Append(appointments,
                                BookedRow(CurrentUser, bookingDialog.doctor, bookingDialog.date,
                                          "payment_pending", bookingDialog.method))
                    /\ patAppointments' =
                         <<NewAppointment(Len(appointments) + 1,
                                          BookedRow(CurrentUser, bookingDialog.doctor,
                                                    bookingDialog.date, "payment_pending",
                                                    bookingDialog.method))>> \o patAppointments
                    /\ showBookingModal' = FALSE
                    /\ selectedDoctor' = NoDoctor
                    /\ appointmentDate' = now
                    /\ paymentMethod' = NoMethod
               ELSE UNCHANGED <<appointments, patAppointments, showBookingModal, selectedDoctor,
                                appointmentDate, paymentMethod>>
  /\ UNCHANGED <<now, docAppointments, selectedAppointment, newDate, showDatePicker, actor,
                 inboxVars, authVars, notBookVars>>

\* BookAppointment.handleBookAppointment with the values of its own form
\* (doctor, date, payment method; an empty field ends it): insert ... status 'upcoming'
screenHandleBookAppointment ==
  /\ ~bookingDialog.open
  /\ Len(appointments) < MaxAppts
  /\ \E d \in Doctors \cup {NoDoctor}, t \in Dates, m \in PaymentMethods \cup {NoMethod} :
       IF d = NoDoctor \/ m = NoMethod
       THEN /\ lastOp' = [name |-> "BookAppointment.handleBookAppointment", result |-> "rejected"]
            /\ UNCHANGED appointments
       ELSE \E ok \in BOOLEAN :
              /\ lastOp' = [name |-> "BookAppointment.handleBookAppointment", result |-> Outcome(ok)]
              /\ appointments' = IF ok THEN Append(appointments, BookedRow(CurrentUser, d, t, "upcoming", m))
                                 ELSE appointments
  /\ UNCHANGED <<now, showBookingModal, selectedDoctor, appointmentDate, paymentMethod,
                 bookingDialog, docAppointments, patAppointments, selectedAppointment, newDate,
                 showDatePicker, actor, inboxVars, authVars, notBookVars>>

BookingNext ==
  \/ Tick
  \/ toggleBookingModal
  \/ editBookingForm
  \/ modalHandleBookAppointment
  \/ declineBooking
  \/ modalConfirmBooking
  \/ screenHandleBookAppointment

SpecBooking == BookingInit /\ [][BookingNext]_vars

\* a step inserted a row into appointments
RowInserted == Len(appointments') = Len(appointments) + 1

\* C14: every appointment row a patient inserts, through the modal of the
\* bookings screen or through the Book Appointment screen, has a date strictly
\* later than the current time at the moment of the insert.
C14_FutureDatedBookings ==
  [][RowInserted => appointments'[Len(appointments')].date > now]_vars

\* what the modal does ensure: the date was in the future when the form was submitted
C14_FutureWhenSubmitted ==
  [][(lastOp'.name = "handleBookAppointment" /\ lastOp'.result = "asked")
       => bookingDialog'.date > now]_vars

\* the steps of the booking modal's handlers
ModalStep == lastOp'.name \in {"handleBookAppointment", "declineBooking", "confirmBooking"}

BookingSucceeded == lastOp' = [name |-> "confirmBooking", result |-> "ok"]

\* C15: the modal inserts a row only when a doctor and a payment method are
\* selected and the user accepts the dialog; it then inserts exactly one row
\* (current user, selected doctor, date and payment method, 'payment_pending')
\* and puts it in front of the local list; when a check fails, the dialog is
\* declined or the insert errors, no row is added to the local list and the
\* form keeps its values.
C15_BookingPreconditionsAndEffect ==
  [][ModalStep =>
       IF BookingSucceeded
       THEN /\ bookingDialog.open
            /\ selectedDoctor # NoDoctor
            /\ paymentMethod # NoMethod
            /\ appointments' =
                 Append(appointments,
                        [patient_id |-> CurrentUser, doctor_id |-> selectedDoctor,
                         date |-> appointmentDate, status |-> "payment_pending",
                         payment_method |-> paymentMethod])
            /\ patAppointments' =
                 <<[id |-> Len(appointments) + 1, doctor_id |-> selectedDoctor,
                    date |-> appointmentDate, status |-> "payment_pending",
                    payment_method |-> paymentMethod]>> \o patAppointments
       ELSE UNCHANGED <<appointments, patAppointments, selectedDoctor, appointmentDate,
                        paymentMethod>>]_vars

\* a second booking through the modal has just succeeded: two items in the
\* list, the new one first, and the form is empty again
C15_Witness ==
  /\ lastOp = [name |-> "confirmBooking", result |-> "ok"]
  /\ Len(patAppointments) = 2
  /\ patAppointments[1].id = Len(appointments)
  /\ patAppointments[1].status = "payment_pending"
  /\ selectedDoctor = NoDoctor
  /\ paymentMethod = NoMethod

\* the failure cases of C15 happen: a rejected form, a declined dialog, a failed insert
C15_FailureCasesReached ==
  /\ lastOp = [name |-> "confirmBooking", result |-> "error"]
  /\ selectedDoctor # NoDoctor
  /\ paymentMethod # NoMethod
  /\ Len(patAppointments) = 1

-----------------------------------------------------------------------------
(* Sign-up: SpecSignUp                                                     *)
(* RegisterScreen.handleRegister and AuthProvider.signUp                   *)

\* what can be typed into the fields of the register form
FormNames == {"", "Ann"}
FormEmails == {"", "a@x", "d@x"}
FormPasswords == {"", "pw1", "pw2"}

\* the accounts a sign-up can be about: a new one and the seeded doctor's
SignUpEmails == FormEmails \ {""}

\* RegisterScreen.handleRegister, first check
FormFilled(f) == f.name # "" /\ f.email # "" /\ f.password # "" /\ f.confirmPassword # ""

\* RegisterScreen.handleRegister, second check
PasswordsMatch(f) == f.password = f.confirmPassword

\* (mutant) signUp returning the auth error in every case
SignUpResultAuthOnly(authError, insertError) == [error |-> authError]

\* what signUp returns: { error: insertError } after a created account, else { error }
SignUpResult(authError, insertError) ==
  IF authError = "null" THEN [error |-> insertError] ELSE [error |-> authError]

\* the register screen is shown; the doctor's account and users row exist
SignUpInit ==
  /\ regForm = EmptyForm
  /\ regLoading = FALSE
  /\ signUpCall = NoSignUp
  /\ authAccounts = {"d@x"}
  /\ signUpReturn = [error |-> "none"]
  /\ usersTable = [e \in SignUpEmails |-> IF e = "d@x" THEN "doctor" ELSE NoRow]
  /\ authSession = NoSession
  /\ session = NoSession
  /\ user = NoUser
  /\ authLoading = FALSE
  /\ segment = "(auth)"
  /\ getSessionPending = FALSE
  /\ authEvents = <<>>
  /\ roleLookups = <<>>
  /\ effectPending = FALSE
  /\ signInCall = NoCall
  /\ signOutCall = FALSE
  /\ nav = "none"
  /\ signIns = 0
  /\ refreshes = 0
  /\ InboxIdle
  /\ ApptIdle
  /\ NotSignUpIdle

\* the auth variables a sign-up leaves alone
authVarsButUsersTable ==
  <<authSession, session, user, authLoading, segment, getSessionPending, authEvents,
    roleLookups, effectPending, signInCall, signOutCall, nav, signIns, refreshes>>

\* typing into one field of the form
editRegisterForm ==
  /\ ~regLoading
  /\ \/ \E v \in FormNames : regForm' = [regForm EXCEPT !.name = v]
     \/ \E v \in FormEmails : regForm' = [regForm EXCEPT !.email = v]
     \/ \E v \in FormPasswords : regForm' = [regForm EXCEPT !.password = v]
     \/ \E v \in FormPasswords : regForm' = [regForm EXCEPT !.confirmPassword = v]
  /\ UNCHANGED <<regLoading, signUpCall, authAccounts, signUpReturn, usersTable,
                 authVarsButUsersTable, inboxVars, apptVars, notSignUpVars>>

\* RegisterScreen.handleRegister up to the call of signUp(email, password, name)
handleRegister ==
  /\ ~regLoading
  /\ IF FormFilled(regForm) /\ PasswordsMatch(regForm)
     THEN /\ regLoading' = TRUE
          /\ signUpCall' = [stage |-> "auth", email |-> regForm.email, name |-> regForm.name]
     ELSE UNCHANGED <<regLoading, signUpCall>>
  /\ UNCHANGED <<regForm, authAccounts, signUpReturn, usersTable,
                 authVarsButUsersTable, inboxVars, apptVars, notSignUpVars>>

\* supabase.auth.signUp returns: the account is created, or an error (always
\* so when the email is registered already); on error signUp returns it
authSignUpReturn ==
  /\ signUpCall.stage = "auth"
  /\ \E ok \in BOOLEAN :
       IF ok /\ signUpCall.email \notin authAccounts
       THEN /\ authAccounts' = authAccounts \cup {signUpCall.email}
            /\ signUpCall' = [signUpCall EXCEPT !.stage = "insert"]
            /\ UNCHANGED <<regLoading, signUpReturn>>
       ELSE /\ signUpReturn' = SignUpResult("auth error", "null")
            /\ signUpCall' = NoSignUp
            /\ regLoading' = FALSE
            /\ UNCHANGED authAccounts
  /\ UNCHANGED <<regForm, usersTable, authVarsButUsersTable, inboxVars, apptVars, notSignUpVars>>

\* the insert of { email, name, role: 'patient' } into users returns (it fails
\* when a row with this email exists, or for any other reason); signUp returns
\* { error: insertError } and handleRegister shows the outcome
usersInsertReturn ==
  /\ signUpCall.stage = "insert"
  /\ \E ok \in BOOLEAN :
       IF ok /\ usersTable[signUpCall.email] = NoRow
       THEN /\ usersTable' = [usersTable EXCEPT ![signUpCall.email] = "patient"]
            /\ signUpReturn' = SignUpResult("null", "null")
       ELSE /\ usersTable' = usersTable
            /\ signUpReturn' = SignUpResult("null", "insert error")
  /\ signUpCall' = NoSignUp
  /\ regLoading' = FALSE
  /\ UNCHANGED <<regForm, authAccounts, authVarsButUsersTable, inboxVars, apptVars,
                 notSignUpVars>>

SignUpNext ==
  \/ editRegisterForm
  \/ handleRegister
  \/ authSignUpReturn
  \/ usersInsertReturn

SpecSignUp == SignUpInit /\ [][SignUpNext]_vars

\* a step in which signUp is called / returns / a users row appears
SignUpCalled == signUpCall.stage = "none" /\ signUpCall'.stage = "auth"
SignUpReturned == signUpCall.stage # "none" /\ signUpCall'.stage = "none"
UsersRowInserted == usersTable' # usersTable

\* C17: the register screen calls signUp only when name, email, password and
\* confirmation are non-empty and password equals the confirmation; signUp
\* inserts a users row only after the auth account was created, always with
\* role 'patient'; and it returns no error exactly when both the auth sign-up
\* and the insert of the users row succeeded.
C17_SignUpOutcome ==
  [][/\ SignUpCalled =>
          /\ regForm.name # "" /\ regForm.email # ""
          /\ regForm.password # "" /\ regForm.confirmPassword # ""
          /\ regForm.password = regForm.confirmPassword
          /\ signUpCall'.email = regForm.email
     /\ UsersRowInserted =>
          /\ signUpCall.stage = "insert"
          /\ signUpCall.email \in authAccounts
          /\ usersTable' = [usersTable EXCEPT ![signUpCall.email] = "patient"]
     /\ SignUpReturned =>
          (signUpReturn'.error = "null"
             <=> (signUpCall.stage = "insert" /\ UsersRowInserted))]_vars

\* signUp has returned without error for the new account: it has an auth
\* account and a users row with role 'patient'
C17_Witness ==
  /\ signUpReturn = [error |-> "null"]
  /\ "a@x" \in authAccounts
  /\ usersTable["a@x"] = "patient"
  /\ signUpCall = NoSignUp

\* the account was created but the insert failed: signUp returned an error
C17_InsertFailureReached ==
  /\ signUpReturn = [error |-> "insert error"]
  /\ "a@x" \in authAccounts
  /\ usersTable["a@x"] = NoRow

-----------------------------------------------------------------------------
(* Chat screens: SpecChat                                                  *)
(* ChatScreen ((doctor)/chat.tsx) and DoctorChatScreen                     *)
(* ((doctor)/messages.tsx): effect, fetchMessages, markMessagesAsRead,     *)
(* sendMessage, uploadAndSendMedia                                         *)

\* rows of the backend table at most
MaxChatRows == 2
\* runs of the screen's effect at most
MaxEffectRuns == 2
\* calls of uploadAndSendMedia at most
MaxMediaCalls == 1
\* sendMessage calls in flight at most
MaxSends == 2

\* the doctor using the screen, and another receiver
ChatDoctor == "d1"
ChatReceivers == {"d1", "d2"}
\* the patients a chat can be opened with
ChatPatients == {"p1", "p2"}
\* what the draft can be: empty, blank, a word between blanks
Drafts == {<<>>, <<" ">>, <<" ", "h", " ">>}
MediaTypes == {"image", "audio"}

RECURSIVE TrimStart(_)
TrimStart(t) == IF t # <<>> /\ Head(t) = " " THEN TrimStart(Tail(t)) ELSE t

RECURSIVE TrimEnd(_)
TrimEnd(t) ==
  IF t # <<>> /\ t[Len(t)] = " " THEN TrimEnd(SubSeq(t, 1, Len(t) - 1)) ELSE t

\* String.prototype.trim
Trim(t) == TrimEnd(TrimStart(t))

\* the row the backend stores for an insert: id and created_at by the backend
NewChatRow(table, sender, receiver, text, url, type) ==
  [id |-> Len(table) + 1, sender_id |-> sender, receiver_id |-> receiver,
   message |-> text, read |-> FALSE, media_url |-> url, media_type |-> type,
   created_at |-> Len(table) + 1]

\* the row sendMessage inserts
TextRow(table, u, p, draft) == NewChatRow(table, u, p, Trim(draft), "", "")

\* the message text of a media row
MediaLabel(type) ==
  IF type = "audio" THEN <<"Audio message">>
  ELSE IF type = "video" THEN <<"Video">> ELSE <<"Image">>

\* the row uploadAndSendMedia inserts
MediaRow(table, u, p, url, type) == NewChatRow(table, u, p, MediaLabel(type), url, type)

\* the public URL of the next uploaded file
PublicUrl(files) == "chat-media/" \o ToString(Cardinality(files) + 1)

\* the query of fetchMessages: the rows between u and p, by created_at ascending
InConversation(r, u, p) ==
  \/ r.sender_id = u /\ r.receiver_id = p
  \/ r.sender_id = p /\ r.receiver_id = u

FetchMessagesResult(table, u, p) == SelectSeq(table, LAMBDA r : InConversation(r, u, p))

\* (mutant) an update without the filter on the sender
MarkMessagesAsReadAnySender(table, u, p) ==
  [i \in DOMAIN table |->
     IF table[i].receiver_id = u /\ ~table[i].read
     THEN [table[i] EXCEPT !.read = TRUE]
     ELSE table[i]]

\* the update of markMessagesAsRead
MarkMessagesAsRead(table, u, p) ==
  [i \in DOMAIN table |->
     IF table[i].sender_id = p /\ table[i].receiver_id = u /\ ~table[i].read
     THEN [table[i] EXCEPT !.read = TRUE]
     ELSE table[i]]

\* the test at the start of the effect and of every handler
IdsKnown(u, p) == u # "" /\ p # ""

\* (mutant) a callback that takes every event of the subscription
EventIsForChatAny(row, sub) == TRUE

\* the test of the realtime callback
EventIsForChat(row, sub) == row.sender_id = sub.patientId

\* (mutant) a send guard that looks at the untrimmed draft
SendableUntrimmed(draft, u, p) == draft # <<>> /\ IdsKnown(u, p)

\* the guard of sendMessage
Sendable(draft, u, p) == Trim(draft) # <<>> /\ IdsKnown(u, p)

\* the screen before it is opened
ChatInit ==
  /\ chatTable = <<>>
  /\ storageFiles = {}
  /\ chatUserId \in {"", ChatDoctor}
  /\ chatPatientId = ""
  /\ chatMounted = FALSE
  /\ chatMessages = <<>>
  /\ newMessage = <<>>
  /\ chatLoading = TRUE
  /\ sendingMedia = FALSE
  /\ subscription = NoSub
  /\ chatEvents = <<>>
  /\ fetches = <<>>
  /\ markReads = {}
  /\ sends = <<>>
  /\ mediaOps = <<>>
  /\ effectRuns = 0
  /\ mediaCalls = 0
  /\ InboxIdle
  /\ ApptIdle
  /\ AuthIdle
  /\ NotChatIdle

\* the state of the screen component
chatLocalVars == <<chatMessages, newMessage, chatLoading, sendingMedia>>
\* what the effect sets up
chatEffectVars == <<subscription, chatEvents, fetches, markReads, effectRuns>>
\* everything outside the chat screens
notChatAtAll == <<inboxVars, apptVars, authVars, notChatVars>>

\* the effect for user u and patientId p, after the cleanup of its last run:
\* fetchMessages(), markMessagesAsRead(), subscribe
RunEffect(u, p) ==
  /\ effectRuns' = effectRuns + 1
  /\ chatEvents' = <<>>
  /\ IF IdsKnown(u, p)
     THEN /\ fetches' = Append(fetches, [user |-> u, patientId |-> p, stage |-> "sent",
                                         ok |-> TRUE, data |-> <<>>])
          /\ markReads' = markReads \cup {[user |-> u, patientId |-> p]}
          /\ subscription' = [user |-> u, patientId |-> p]
     ELSE /\ subscription' = NoSub
          /\ UNCHANGED <<fetches, markReads>>

\* the screen is mounted with route parameter p
openChat(p) ==
  /\ ~chatMounted
  /\ effectRuns < MaxEffectRuns
  /\ chatMounted' = TRUE
  /\ chatPatientId' = p
  /\ RunEffect(chatUserId, p)
  /\ UNCHANGED <<chatTable, storageFiles, chatUserId, chatLocalVars, sends, mediaOps,
                 mediaCalls, notChatAtAll>>

\* the route parameter changes while the screen stays mounted: cleanup, effect
changeCounterpart(p) ==
  /\ chatMounted
  /\ p # chatPatientId
  /\ effectRuns < MaxEffectRuns
  /\ chatPatientId' = p
  /\ RunEffect(chatUserId, p)
  /\ UNCHANGED <<chatTable, storageFiles, chatUserId, chatMounted, chatLocalVars,
                 sends, mediaOps, mediaCalls, notChatAtAll>>

\* the auth context gets its user: cleanup, effect (dependency user)
userLoaded ==
  /\ chatUserId = ""
  /\ chatUserId' = ChatDoctor
  /\ IF chatMounted
     THEN effectRuns < MaxEffectRuns /\ RunEffect(ChatDoctor, chatPatientId)
     ELSE UNCHANGED chatEffectVars
  /\ UNCHANGED <<chatTable, storageFiles, chatPatientId, chatMounted, chatLocalVars,
                 sends, mediaOps, mediaCalls, notChatAtAll>>

\* the screen unmounts: cleanup unsubscribes, the component's state is gone
\* and no continuation changes it any more; an uploadAndSendMedia in flight
\* goes on with its backend calls
closeChat ==
  /\ chatMounted
  /\ chatMounted' = FALSE
  /\ chatPatientId' = ""
  /\ subscription' = NoSub
  /\ chatEvents' = <<>>
  /\ fetches' = <<>>
  /\ sends' = <<>>
  /\ mediaOps' = [i \in DOMAIN mediaOps |-> [mediaOps[i] EXCEPT !.orphan = TRUE]]
  /\ chatMessages' = <<>>
  /\ newMessage' = <<>>
  /\ chatLoading' = TRUE
  /\ sendingMedia' = FALSE
  /\ UNCHANGED <<chatTable, storageFiles, chatUserId, markReads, effectRuns,
                 mediaCalls, notChatAtAll>>

\* the backend answers the query of a fetchMessages call
fetchMessagesAnswered(i) ==
  /\ fetches[i].stage = "sent"
  /\ \E ok \in BOOLEAN :
       fetches' = [fetches EXCEPT ![i] =
                     [user |-> fetches[i].user, patientId |-> fetches[i].patientId,
                      stage |-> "answered", ok |-> ok,
                      data |-> IF ok
                               THEN FetchMessagesResult(chatTable, fetches[i].user,
                                                        fetches[i].patientId)
                               ELSE <<>>]]
  /\ UNCHANGED <<chatTable, storageFiles, chatUserId, chatPatientId, chatMounted,
                 chatLocalVars, subscription, chatEvents, markReads, effectRuns, sends,
                 mediaOps, mediaCalls, notChatAtAll>>

\* fetchMessages continues after its await: setMessages(data || []), or the
\* error is logged; finally setLoading(false)
fetchMessagesReturn(i) ==
  /\ fetches[i].stage = "answered"
  /\ chatMessages' = IF fetches[i].ok THEN fetches[i].data ELSE chatMessages
  /\ chatLoading' = FALSE
  /\ fetches' = RemoveAt(fetches, i)
  /\ UNCHANGED <<chatTable, storageFiles, chatUserId, chatPatientId, chatMounted,
                 newMessage, sendingMedia, subscription, chatEvents, markReads, effectRuns,
                 sends, mediaOps, mediaCalls, notChatAtAll>>

\* the backend performs (or refuses) the update of a markMessagesAsRead call
markReadApplied(m) ==
  /\ \E ok \in BOOLEAN :
       chatTable' = IF ok
                    THEN MarkMessagesAsRead(chatTable, m.user, m.patientId)
                    ELSE chatTable
  /\ markReads' = markReads \ {m}
  /\ UNCHANGED <<storageFiles, chatUserId, chatPatientId, chatMounted, chatLocalVars,
                 subscription, chatEvents, fetches, effectRuns, sends, mediaOps, mediaCalls,
                 notChatAtAll>>

\* somebody else inserts a message; the backend sends the INSERT event to a
\* subscription whose filter receiver_id=eq.<user> matches
otherInsertsMessage(s, r) ==
  /\ Len(chatTable) < MaxChatRows
  /\ chatTable' = Append(chatTable, NewChatRow(chatTable, s, r, <<"h">>, "", ""))
  /\ chatEvents' = IF subscription # NoSub /\ r = subscription.user
                   THEN Append(chatEvents, NewChatRow(chatTable, s, r, <<"h">>, "", ""))
                   ELSE chatEvents
  /\ UNCHANGED <<storageFiles, chatUserId, chatPatientId, chatMounted, chatLocalVars,
                 subscription, fetches, markReads, effectRuns, sends, mediaOps, mediaCalls,
                 notChatAtAll>>

\* the callback of the subscription runs for the next event
onChatInsert ==
  /\ chatEvents # <<>>
  /\ chatEvents' = Tail(chatEvents)
  /\ IF EventIsForChat(Head(chatEvents), subscription)
     THEN /\ chatMessages' = Append(chatMessages, Head(chatEvents))
          /\ markReads' = markReads \cup {subscription}
     ELSE /\ UNCHANGED <<chatMessages, markReads>>
  /\ UNCHANGED <<chatTable, storageFiles, chatUserId, chatPatientId, chatMounted,
                 newMessage, chatLoading, sendingMedia, subscription, fetches, effectRuns,
                 sends, mediaOps, mediaCalls, notChatAtAll>>

\* the text input (editable={!sendingMedia})
editDraft(d) ==
  /\ chatMounted
  /\ ~sendingMedia
  /\ d # newMessage
  /\ newMessage' = d
  /\ UNCHANGED <<chatTable, storageFiles, chatUserId, chatPatientId, chatMounted,
                 chatMessages, chatLoading, sendingMedia, chatEffectVars, sends, mediaOps,
                 mediaCalls, notChatAtAll>>

\* sendMessage up to its await: the guard, and the insert as the backend
\* answers it (the row, or an error)
sendMessage ==
  /\ chatMounted
  /\ ~sendingMedia
  /\ IF Sendable(newMessage, chatUserId, chatPatientId)
     THEN /\ Len(chatTable) < MaxChatRows
          /\ Len(sends) < MaxSends
          /\ \E ok \in BOOLEAN :
               IF ok
               THEN /\ chatTable' = Append(chatTable, TextRow(chatTable, chatUserId,
                                                             chatPatientId, newMessage))
                    /\ sends' = Append(sends, [ok |-> TRUE,
                                               data |-> <<TextRow(chatTable, chatUserId,
                                                                  chatPatientId, newMessage)>>])
               ELSE /\ chatTable' = chatTable
                    /\ sends' = Append(sends, [ok |-> FALSE, data |-> <<>>])
     ELSE /\ UNCHANGED <<chatTable, sends>>
  /\ UNCHANGED <<storageFiles, chatUserId, chatPatientId, chatMounted, chatLocalVars,
                 chatEffectVars, mediaOps, mediaCalls, notChatAtAll>>

\* sendMessage continues after its await: the returned row is appended and
\* the draft cleared, or the error is logged
sendMessageReturn(i) ==
  /\ IF sends[i].ok
     THEN /\ chatMessages' = Append(chatMessages, sends[i].data[1])
          /\ newMessage' = <<>>
     ELSE /\ UNCHANGED <<chatMessages, newMessage>>
  /\ sends' = RemoveAt(sends, i)
  /\ UNCHANGED <<chatTable, storageFiles, chatUserId, chatPatientId, chatMounted,
                 chatLoading, sendingMedia, chatEffectVars, mediaOps, mediaCalls, notChatAtAll>>

\* uploadAndSendMedia(uri, mediaType) up to its first await
uploadAndSendMedia(t) ==
  /\ chatMounted
  /\ mediaCalls < MaxMediaCalls
  /\ mediaCalls' = mediaCalls + 1
  /\ IF IdsKnown(chatUserId, chatPatientId)
     THEN /\ sendingMedia' = TRUE
          /\ mediaOps' = Append(mediaOps, [stage |-> "read", mediaType |-> t,
                                           user |-> chatUserId, patientId |-> chatPatientId,
                                           url |-> "", ok |-> TRUE, data |-> <<>>,
                                           orphan |-> FALSE])
     ELSE /\ UNCHANGED <<sendingMedia, mediaOps>>
  /\ UNCHANGED <<chatTable, storageFiles, chatUserId, chatPatientId, chatMounted,
                 chatMessages, newMessage, chatLoading, chatEffectVars, sends, notChatAtAll>>

\* (mutant) an uploadAndSendMedia without its finally block
EndMediaOpNoFinally(i) ==
  /\ mediaOps' = RemoveAt(mediaOps, i)
  /\ sendingMedia' = sendingMedia

\* an uploadAndSendMedia call ends (finally): setSendingMedia(false), which
\* does nothing once the screen was unmounted
EndMediaOp(i) ==
  /\ mediaOps' = RemoveAt(mediaOps, i)
  /\ sendingMedia' = IF mediaOps[i].orphan THEN sendingMedia ELSE FALSE

\* the file was fetched and converted to base64 and the upload is sent, or
\* one of these steps throws
mediaFileRead(i) ==
  /\ mediaOps[i].stage = "read"
  /\ \E ok \in BOOLEAN :
       IF ok
       THEN /\ mediaOps' = [mediaOps EXCEPT ![i].stage = "upload"]
            /\ UNCHANGED sendingMedia
       ELSE /\ EndMediaOp(i)
  /\ UNCHANGED <<chatTable, storageFiles, chatUserId, chatPatientId, chatMounted,
                 chatMessages, newMessage, chatLoading, chatEffectVars, sends, mediaCalls,
                 notChatAtAll>>

\* the upload returns: on error the call ends; else the public URL is taken
\* and the message row is inserted, as the backend answers it
mediaUploadReturn(i) ==
  /\ mediaOps[i].stage = "upload"
  /\ \E ok \in BOOLEAN, insertOk \in BOOLEAN :
       IF ok
       THEN /\ storageFiles' = storageFiles \cup {PublicUrl(storageFiles)}
            /\ IF insertOk /\ Len(chatTable) < MaxChatRows
               THEN /\ chatTable' =
                         Append(chatTable, MediaRow(chatTable, mediaOps[i].user,
                                                    mediaOps[i].patientId,
                                                    PublicUrl(storageFiles),
                                                    mediaOps[i].mediaType))
                    /\ mediaOps' =
                         [mediaOps EXCEPT ![i].stage = "insert",
                                          ![i].url = PublicUrl(storageFiles),
                                          ![i].data =
                                            <<MediaRow(chatTable, mediaOps[i].user,
                                                       mediaOps[i].patientId,
                                                       PublicUrl(storageFiles),
                                                       mediaOps[i].mediaType)>>]
               ELSE /\ chatTable' = chatTable
                    /\ mediaOps' = [mediaOps EXCEPT ![i].stage = "insert",
                                                    ![i].url = PublicUrl(storageFiles),
                                                    ![i].ok = FALSE]
            /\ UNCHANGED sendingMedia
       ELSE /\ EndMediaOp(i)
            /\ UNCHANGED <<chatTable, storageFiles>>
  /\ UNCHANGED <<chatUserId, chatPatientId, chatMounted, chatMessages, newMessage,
                 chatLoading, chatEffectVars, sends, mediaCalls, notChatAtAll>>

\* the insert returns: the returned row is appended, or the error is shown;
\* finally the call ends
mediaInsertReturn(i) ==
  /\ mediaOps[i].stage = "insert"
  /\ IF mediaOps[i].ok /\ ~mediaOps[i].orphan
     THEN chatMessages' = Append(chatMessages, mediaOps[i].data[1])
     ELSE chatMessages' = chatMessages
  /\ EndMediaOp(i)
  /\ UNCHANGED <<chatTable, storageFiles, chatUserId, chatPatientId, chatMounted,
                 newMessage, chatLoading, chatEffectVars, sends, mediaCalls, notChatAtAll>>

\* the screen is opened and closed; its fetchMessages calls
ChatOpenNext ==
  \/ \E p \in ChatPatients \cup {""} : openChat(p)
  \/ closeChat
  \/ \E i \in DOMAIN fetches : fetchMessagesAnswered(i)
  \/ \E i \in DOMAIN fetches : fetchMessagesReturn(i)

\* the text messages of the user
ChatSendNext ==
  \/ ChatOpenNext
  \/ \E d \in Drafts : editDraft(d)
  \/ sendMessage
  \/ \E i \in DOMAIN sends : sendMessageReturn(i)

\* the media messages of the user
ChatMediaNext ==
  \/ ChatOpenNext
  \/ \E t \in MediaTypes : uploadAndSendMedia(t)
  \/ \E i \in DOMAIN mediaOps : mediaFileRead(i)
  \/ \E i \in DOMAIN mediaOps : mediaUploadReturn(i)
  \/ \E i \in DOMAIN mediaOps : mediaInsertReturn(i)

\* the messages of others, their realtime events and the updates of
\* markMessagesAsRead, while user and counterpart change
ChatRealtimeNext ==
  \/ \E p \in ChatPatients \cup {""} : openChat(p)
  \/ closeChat
  \/ \E p \in ChatPatients : changeCounterpart(p)
  \/ userLoaded
  \/ \E m \in markReads : markReadApplied(m)
  \/ \E s \in ChatPatients, r \in ChatReceivers : otherInsertsMessage(s, r)
  \/ onChatInsert

SpecChatSend == ChatInit /\ [][ChatSendNext]_vars

SpecChatMedia == ChatInit /\ [][ChatMediaNext]_vars

SpecChatRealtime == ChatInit /\ [][ChatRealtimeNext]_vars


\* every backend call and file read of an uploadAndSendMedia in flight returns
SpecChatMediaFair ==
  /\ SpecChatMedia
  /\ WF_vars(\E i \in DOMAIN mediaOps : mediaFileRead(i))
  /\ WF_vars(\E i \in DOMAIN mediaOps : mediaUploadReturn(i))
  /\ WF_vars(\E i \in DOMAIN mediaOps : mediaInsertReturn(i))

\* the last row of the backend table after a step that inserted one
InsertedChatRow == chatTable'[Len(chatTable')]

\* a step that inserts one row into the backend table
ChatRowInserted ==
  /\ Len(chatTable') = Len(chatTable) + 1
  /\ SubSeq(chatTable', 1, Len(chatTable)) = chatTable

\* a step in which the continuation of a sendMessage call runs
SendReturned == chatMounted' /\ Len(sends') = Len(sends) - 1

\* C18: sendMessage inserts a row only when the trimmed draft is non-empty and
\* user id and counterpart id are known; the row has sender = current user,
\* receiver = open counterpart, message = trimmed draft, read = false; on
\* success the returned row is appended once to the local list and the draft
\* is cleared; on an empty draft or an insert error list and draft stay as
\* they are.
C18_SendMessage ==
  [][/\ chatTable' # chatTable =>
          /\ ChatRowInserted
          /\ Trim(newMessage) # <<>> /\ chatUserId # "" /\ chatPatientId # ""
          /\ InsertedChatRow.sender_id = chatUserId
          /\ InsertedChatRow.receiver_id = chatPatientId
          /\ InsertedChatRow.message = Trim(newMessage)
          /\ InsertedChatRow.read = FALSE
          /\ sends' = Append(sends, [ok |-> TRUE, data |-> <<InsertedChatRow>>])
          /\ UNCHANGED <<chatMessages, newMessage>>
     /\ SendReturned =>
          \E i \in DOMAIN sends :
            /\ sends' = RemoveAt(sends, i)
            /\ IF sends[i].ok
               THEN /\ chatMessages' = Append(chatMessages, sends[i].data[1])
                    /\ newMessage' = <<>>
               ELSE UNCHANGED <<chatMessages, newMessage>>
     /\ (Len(sends') >= Len(sends) /\ fetches' = fetches /\ chatMounted') =>
          chatMessages' = chatMessages]_vars

\* a draft with blanks around the word was sent: its trimmed text is the last
\* item of the list and in the table, and the draft is empty
C18_Witness ==
  /\ chatMounted
  /\ sends = <<>>
  /\ newMessage = <<>>
  /\ chatMessages # <<>>
  /\ chatMessages[Len(chatMessages)].message = <<"h">>
  /\ chatMessages[Len(chatMessages)].sender_id = ChatDoctor
  /\ chatMessages[Len(chatMessages)].receiver_id = chatPatientId
  /\ \E i \in DOMAIN chatTable : chatTable[i] = chatMessages[Len(chatMessages)]

\* an insert has failed and its response is about to be handled while the
\* draft is still there
C18_InsertErrorReached ==
  /\ chatMounted
  /\ \E i \in DOMAIN sends : ~sends[i].ok
  /\ Trim(newMessage) # <<>>

\* a step in which an uploadAndSendMedia call ends
MediaOpEnded == Len(mediaOps') = Len(mediaOps) - 1

\* C19: uploadAndSendMedia inserts a message row with media_url and
\* media_type only after the upload succeeded and its public URL was taken;
\* when the upload or the insert fails nothing is appended to the local list;
\* and sendingMedia, true from the start of the call, is false when the call
\* ends, whatever the outcome -- and every call ends.
C19_MediaOrdering ==
  /\ [][/\ chatTable' # chatTable =>
             /\ ChatRowInserted
             /\ InsertedChatRow.media_url # ""
             /\ InsertedChatRow.media_url \in storageFiles'
             /\ \E i \in DOMAIN mediaOps :
                  /\ mediaOps[i].stage = "upload"
                  /\ mediaOps'[i].stage = "insert"
                  /\ mediaOps'[i].url = InsertedChatRow.media_url
                  /\ InsertedChatRow.media_type = mediaOps[i].mediaType
        /\ Len(mediaOps') = Len(mediaOps) + 1 => sendingMedia'
        /\ MediaOpEnded =>
             \E i \in DOMAIN mediaOps :
               /\ mediaOps' = RemoveAt(mediaOps, i)
               /\ ~mediaOps[i].orphan => ~sendingMedia'
               /\ IF mediaOps[i].stage = "insert" /\ mediaOps[i].ok /\ ~mediaOps[i].orphan
                  THEN chatMessages' = Append(chatMessages, mediaOps[i].data[1])
                  ELSE chatMessages' = chatMessages]_vars
  /\ sendingMedia ~> ~sendingMedia

\* a media message was sent: the call has ended, sendingMedia is false, the
\* last item of the list carries the URL of an uploaded file
C19_Witness ==
  /\ chatMounted
  /\ mediaOps = <<>>
  /\ mediaCalls > 0
  /\ ~sendingMedia
  /\ chatMessages # <<>>
  /\ chatMessages[Len(chatMessages)].media_url \in storageFiles
  /\ chatMessages[Len(chatMessages)].media_type \in MediaTypes

\* the upload succeeded and the insert failed: a file, no row, no item
C19_InsertFailureReached ==
  /\ chatMounted
  /\ mediaOps = <<>>
  /\ ~sendingMedia
  /\ storageFiles # {}
  /\ chatTable = <<>>
  /\ chatMessages = <<>>

\* a step in which the callback of the subscription runs for an event
EventDelivered ==
  /\ chatEvents # <<>>
  /\ chatEvents' = Tail(chatEvents)
  /\ chatMounted'
  /\ effectRuns' = effectRuns

\* C20: while a chat with counterpart P is open, a realtime INSERT event is
\* appended to the local list if and only if its sender is P (and its
\* receiver the current user); an event of another sender leaves the list
\* unchanged and triggers no mark-as-read; after unmount or a change of
\* counterpart the events of the old subscription do not change the list.
C20_RealtimeFilter ==
  [][/\ EventDelivered =>
          IF /\ Head(chatEvents).sender_id = chatPatientId
             /\ Head(chatEvents).receiver_id = chatUserId
          THEN /\ chatMessages' = Append(chatMessages, Head(chatEvents))
               /\ markReads' = markReads \cup {[user |-> chatUserId,
                                                patientId |-> chatPatientId]}
          ELSE UNCHANGED <<chatMessages, markReads>>
     /\ (chatMessages' # chatMessages /\ chatMounted') =>
          /\ EventDelivered
          /\ Head(chatEvents).sender_id = chatPatientId'
     /\ ~chatMounted' => chatMessages' = <<>>
     /\ chatEvents' # <<>> =>
          \A i \in DOMAIN chatEvents' :
            /\ subscription' # NoSub
            /\ subscription' = [user |-> chatUserId', patientId |-> chatPatientId']
            /\ chatEvents'[i].receiver_id = chatUserId']_vars

\* with p1's chat open, an event of p2 was ignored and an event of p1 was
\* appended: the list holds p1's message only
C20_Witness ==
  /\ chatMounted
  /\ chatPatientId = "p1"
  /\ chatEvents = <<>>
  /\ Len(chatTable) = 2
  /\ chatTable[1].sender_id = "p2" /\ chatTable[1].receiver_id = ChatDoctor
  /\ chatTable[2].sender_id = "p1" /\ chatTable[2].receiver_id = ChatDoctor
  /\ chatMessages = <<chatTable[2]>>
  /\ effectRuns = 1

\* the counterpart changed to p2 after p1 had sent: the list holds nothing of p1
C20_CounterpartChangedReached ==
  /\ chatMounted
  /\ effectRuns = 2
  /\ chatPatientId = "p2"
  /\ chatTable # <<>>
  /\ chatTable[1].sender_id = "p1" /\ chatTable[1].receiver_id = ChatDoctor
  /\ chatMessages = <<>>
  /\ chatEvents = <<>>

-----------------------------------------------------------------------------
(* Patient verification: SpecVerification                                  *)
(* PatientHomeScreen: checkVerificationStatus, handleVerificationSubmit    *)

\* checkVerificationStatus calls in flight at most
MaxStatusFetches == 2

\* what can be typed into a field of the medical profile
ProfileTexts == {"", "x"}

\* the rows the table can hold for the patient when the screen is mounted
SeedPvRows ==
  {NoPvRow}
    \cup {[exists |-> TRUE, verified |-> v, medical_history |-> "x", emergency_contact |-> "x"] :
            v \in BOOLEAN}

\* the check of handleVerificationSubmit
ProfileComplete(data) == data.medical_history # "" /\ data.emergency_contact # ""

\* the row the upsert of handleVerificationSubmit writes
UpsertedRow(data) ==
  [exists |-> TRUE, verified |-> FALSE, medical_history |-> data.medical_history,
   emergency_contact |-> data.emergency_contact]

\* a checkVerificationStatus call whose query is not answered yet
StartedStatusFetch == [stage |-> "sent", kind |-> "none", data |-> NoPvRow]

\* the screen is mounted for a signed-in patient: the effect has called
\* checkVerificationStatus
VerifInit ==
  /\ pvRow \in SeedPvRows
  /\ isVerified = FALSE
  /\ pvLoading = TRUE
  /\ showVerificationForm = FALSE
  /\ verificationData = EmptyProfile
  /\ statusFetches = <<StartedStatusFetch>>
  /\ pvSubmit = NoSubmit
  /\ InboxIdle
  /\ ApptIdle
  /\ AuthIdle
  /\ NotVerifIdle

notVerifAtAll == <<inboxVars, apptVars, authVars, notVerifVars>>

\* the backend answers the query of a checkVerificationStatus call: the row,
\* no row (PGRST116), or another error
statusQueryAnswered(i) ==
  /\ statusFetches[i].stage = "sent"
  /\ \E ok \in BOOLEAN :
       statusFetches' =
         [statusFetches EXCEPT ![i] =
            [stage |-> "answered",
             kind |-> IF ~ok THEN "error" ELSE IF pvRow.exists THEN "row" ELSE "none",
             data |-> IF ok THEN pvRow ELSE NoPvRow]]
  /\ UNCHANGED <<pvRow, isVerified, pvLoading, showVerificationForm, verificationData,
                 pvSubmit, notVerifAtAll>>

\* checkVerificationStatus continues after its await
checkVerificationStatusReturn(i) ==
  /\ statusFetches[i].stage = "answered"
  /\ IF statusFetches[i].kind = "row"
     THEN /\ isVerified' = statusFetches[i].data.verified
          /\ verificationData' =
               [medical_history |-> statusFetches[i].data.medical_history,
                emergency_contact |-> statusFetches[i].data.emergency_contact]
     ELSE UNCHANGED <<isVerified, verificationData>>
  /\ pvLoading' = FALSE
  /\ statusFetches' = RemoveAt(statusFetches, i)
  /\ UNCHANGED <<pvRow, showVerificationForm, pvSubmit, notVerifAtAll>>

\* the button "Complete Profile" of the verification warning
openVerificationForm ==
  /\ ~pvLoading
  /\ ~isVerified /\ ~showVerificationForm
  /\ showVerificationForm' = TRUE
  /\ UNCHANGED <<pvRow, isVerified, pvLoading, verificationData, statusFetches, pvSubmit,
                 notVerifAtAll>>

\* typing into the profile form
editVerificationData ==
  /\ ~pvLoading
  /\ showVerificationForm
  /\ \E h \in ProfileTexts, c \in ProfileTexts :
       /\ verificationData' = [medical_history |-> h, emergency_contact |-> c]
       /\ verificationData' # verificationData
  /\ UNCHANGED <<pvRow, isVerified, pvLoading, showVerificationForm, statusFetches, pvSubmit,
                 notVerifAtAll>>

\* handleVerificationSubmit up to its await: the check, and the upsert as the
\* backend answers it
handleVerificationSubmit ==
  /\ ~pvLoading
  /\ showVerificationForm
  /\ IF ProfileComplete(verificationData)
     THEN /\ pvLoading' = TRUE
          /\ \E ok \in BOOLEAN :
               /\ pvRow' = IF ok THEN UpsertedRow(verificationData) ELSE pvRow
               /\ pvSubmit' = [stage |-> "answered", ok |-> ok]
     ELSE UNCHANGED <<pvRow, pvLoading, pvSubmit>>
  /\ UNCHANGED <<isVerified, showVerificationForm, verificationData, statusFetches,
                 notVerifAtAll>>

\* handleVerificationSubmit continues after its await: on success the form is
\* closed and checkVerificationStatus called; finally setLoading(false)
verificationSubmitReturn ==
  /\ pvSubmit.stage = "answered"
  /\ Len(statusFetches) < MaxStatusFetches
  /\ IF pvSubmit.ok
     THEN /\ showVerificationForm' = FALSE
          /\ statusFetches' = Append(statusFetches, StartedStatusFetch)
     ELSE UNCHANGED <<showVerificationForm, statusFetches>>
  /\ pvLoading' = FALSE
  /\ pvSubmit' = NoSubmit
  /\ UNCHANGED <<pvRow, isVerified, verificationData, notVerifAtAll>>

\* a doctor or administrator verifies the patient's row (outside the patient app)
adminVerifies ==
  /\ pvRow.exists /\ ~pvRow.verified
  /\ pvRow' = [pvRow EXCEPT !.verified = TRUE]
  /\ UNCHANGED <<isVerified, pvLoading, showVerificationForm, verificationData,
                 statusFetches, pvSubmit, notVerifAtAll>>

\* the actions of the patient app
PatientAppNext ==
  \/ \E i \in DOMAIN statusFetches : statusQueryAnswered(i)
  \/ \E i \in DOMAIN statusFetches : checkVerificationStatusReturn(i)
  \/ openVerificationForm
  \/ editVerificationData
  \/ handleVerificationSubmit
  \/ verificationSubmitReturn

VerifNext == PatientAppNext \/ adminVerifies

SpecVerification == VerifInit /\ [][VerifNext]_vars

\* C21: no action of the patient app writes verified = true; a row that has
\* verified = true keeps it through every action of the patient app, also
\* after a failed status fetch and a new submission; and a submission is sent
\* only when medical history and emergency contact are non-empty.
C21_VerificationKept ==
  [][/\ (~pvRow.verified /\ pvRow'.verified) => ~PatientAppNext
     /\ pvRow.verified => pvRow'.verified
     /\ (pvSubmit.stage = "none" /\ pvSubmit'.stage # "none") =>
          (verificationData.medical_history # "" /\ verificationData.emergency_contact # "")]_vars

\* what holds: the patient app never writes verified = true, and it submits
\* complete profiles only
C21_NeverSelfGranted ==
  [][/\ (~pvRow.verified /\ pvRow'.verified) =>
          (pvRow' = [pvRow EXCEPT !.verified = TRUE] /\ UNCHANGED pvSubmit)
     /\ (pvSubmit.stage = "none" /\ pvSubmit'.stage # "none") =>
          (verificationData.medical_history # "" /\ verificationData.emergency_contact # "")]_vars

-----------------------------------------------------------------------------
(* An open chat: SpecChatOpen                                              *)
(* the effect has run for doctor d1 and patient p1; the initial            *)
(* fetchMessages, the realtime callbacks, the user's sends and the         *)
(* mark-as-read updates interleave                                         *)

\* the chat with p1 right after the screen was mounted for a known user
ChatOpenInit ==
  /\ chatTable = <<>>
  /\ storageFiles = {}
  /\ chatUserId = ChatDoctor
  /\ chatPatientId = "p1"
  /\ chatMounted = TRUE
  /\ chatMessages = <<>>
  /\ newMessage = <<>>
  /\ chatLoading = TRUE
  /\ sendingMedia = FALSE
  /\ subscription = [user |-> ChatDoctor, patientId |-> "p1"]
  /\ chatEvents = <<>>
  /\ fetches = <<[user |-> ChatDoctor, patientId |-> "p1", stage |-> "sent", ok |-> TRUE,
                  data |-> <<>>]>>
  /\ markReads = {[user |-> ChatDoctor, patientId |-> "p1"]}
  /\ sends = <<>>
  /\ mediaOps = <<>>
  /\ effectRuns = 1
  /\ mediaCalls = 0
  /\ InboxIdle
  /\ ApptIdle
  /\ AuthIdle
  /\ NotChatIdle

ChatOpenedNext ==
  \/ \E i \in DOMAIN fetches : fetchMessagesAnswered(i)
  \/ \E i \in DOMAIN fetches : fetchMessagesReturn(i)
  \/ \E m \in markReads : markReadApplied(m)
  \/ \E s \in ChatPatients, r \in ChatReceivers : otherInsertsMessage(s, r)
  \/ onChatInsert
  \/ \E d \in Drafts : editDraft(d)
  \/ sendMessage
  \/ \E i \in DOMAIN sends : sendMessageReturn(i)

SpecChatOpen == ChatOpenInit /\ [][ChatOpenedNext]_vars

\* C22: the local list of an open chat holds each message id at most once,
\* under every interleaving of the fetchMessages response, the realtime
\* callbacks and the user's sends.
C22_NoDuplicateMessages ==
  chatMounted =>
    \A i, j \in DOMAIN chatMessages : chatMessages[i].id = chatMessages[j].id => i = j

\* nothing of the open chat is outstanding: no fetch, no event, no send
ChatSettled == chatMounted /\ fetches = <<>> /\ chatEvents = <<>> /\ sends = <<>>

\* C23: every message of the open counterpart to the current user inserted
\* after the screen subscribed is in the local list once the initial fetch
\* and all event callbacks have completed.
C23_NoLostMessages ==
  ChatSettled =>
    \A k \in DOMAIN chatTable :
      (chatTable[k].sender_id = chatPatientId /\ chatTable[k].receiver_id = chatUserId) =>
        \E i \in DOMAIN chatMessages : chatMessages[i].id = chatTable[k].id

\* C24: after the initial fetch the local list of an open chat is sorted by
\* created_at ascending, also after own sends and incoming messages were
\* appended.
C24_ChatOrder ==
  (chatMounted /\ fetches = <<>>) =>
    \A i, j \in DOMAIN chatMessages :
      i < j => chatMessages[i].created_at <= chatMessages[j].created_at

\* a step that changes a row the table already holds
ExistingRowChanged == \E k \in DOMAIN chatTable : chatTable'[k] # chatTable[k]

-----------------------------------------------------------------------------
(* Identity of the context user: SpecAuth                                  *)

\* the context user carries the role and the id of its users row
HasStoredIdentity ==
  /\ user # NoUser
  /\ user.role \in {"doctor", "patient"}
  /\ user.id = RowId(user.email)

\* C25: once getUserRole has stored role, name and users-table id in the
\* context user, the context user keeps that role and that id as long as the
\* session lasts, through every later auth state change event.
C25_IdentityRetention ==
  [][(/\ HasStoredIdentity
      /\ authSession = user.email
      /\ authSession' = authSession
      /\ ~signOutCall)
       => (user' # NoUser /\ user'.role = user.role /\ user'.id = user.id)]_vars

\* a step in which signIn returns { error: null }
SignInReturnedOk ==
  /\ signInCall # NoCall
  /\ signInCall' = NoCall
  /\ signInCall.stage = "role" \/ authEvents' # authEvents

\* C26: when signIn returns without error for a user that has a users row,
\* its role lookup has stored the user's role, name and users-table id in the
\* context user, whatever the order of the password response and the auth
\* state change event.
C26_SignInLoadsRole ==
  [][(SignInReturnedOk /\ usersTable[signInCall.email] # NoRow)
       => user' = [email |-> signInCall.email, id |-> RowId(signInCall.email),
                   role |-> usersTable[signInCall.email],
                   name |-> RowName(signInCall.email)]]_vars

-----------------------------------------------------------------------------
(* Payment completion (checked under SpecAppt)                             *)

\* C28: the backend status of an appointment becomes 'payment_completed'
\* only from 'payment_pending', whatever the doctor and the patient do and
\* also when the doctor's displayed list is stale.
C28_PaymentCompletionGuard ==
  [][\A id \in DOMAIN appointments :
       (/\ appointments'[id].status = "payment_completed"
        /\ appointments[id].status # "payment_completed")
         => appointments[id].status = "payment_pending"]_vars

\* what holds: the doctor's list shows 'payment_pending' for the appointment
\* whose payment is completed
C28_DisplayedPendingOnly ==
  [][\A id \in DOMAIN appointments :
       (/\ appointments'[id].status = "payment_completed"
        /\ appointments[id].status # "payment_completed")
         => \E i \in DOMAIN docAppointments :
              /\ docAppointments[i].id = id
              /\ docAppointments[i].status = "payment_pending"]_vars

-----------------------------------------------------------------------------
(* Voice messages: (doctor)/messages.tsx startRecording, stopRecording     *)

MaxPresses == 2

\* the conversation screen is mounted and the microphone button is up
RecInit ==
  /\ RecIdle
  /\ InboxIdle
  /\ ApptIdle
  /\ AuthIdle
  /\ NotRecIdle

notRecAtAll == <<inboxVars, apptVars, authVars, notRecVars>>

\* onPressIn={startRecording}: the call runs up to its awaits
pressIn ==
  /\ ~micPressed
  /\ presses < MaxPresses
  /\ micPressed' = TRUE
  /\ presses' = presses + 1
  /\ audioSent' = Append(audioSent, 0)
  /\ startCalls' = Append(startCalls, [press |-> presses + 1, stage |-> "creating"])
  /\ UNCHANGED <<recording, isRecording, recorders, stopCalls, notRecAtAll>>

\* startRecording after its awaits: createAsync resolved (setRecording,
\* setIsRecording(true)), or one of the awaits rejected (the alert)
createAsyncReturn(i) ==
  /\ startCalls[i].stage = "creating"
  /\ \E ok \in BOOLEAN :
       /\ startCalls' = [startCalls EXCEPT ![i].stage = IF ok THEN "done" ELSE "failed"]
       /\ IF ok
            THEN /\ recorders' = Append(recorders, "active")
                 /\ recording' = Len(recorders) + 1
                 /\ isRecording' = TRUE
            ELSE UNCHANGED <<recorders, recording, isRecording>>
  /\ UNCHANGED <<micPressed, presses, stopCalls, audioSent, notRecAtAll>>

\* onPressOut={stopRecording}: returns at once when the state recording is
\* null, else setIsRecording(false) and the call to stopAndUnloadAsync
pressOut ==
  /\ micPressed
  /\ micPressed' = FALSE
  /\ IF recording = NoRecording
       THEN UNCHANGED <<isRecording, stopCalls>>
       ELSE /\ isRecording' = FALSE
            /\ stopCalls' = Append(stopCalls, [press |-> presses, rec |-> recording,
                                               stage |-> "stopping"])
  /\ UNCHANGED <<presses, recording, recorders, startCalls, audioSent, notRecAtAll>>

\* stopRecording after stopAndUnloadAsync: setRecording(null) and, with a
\* uri, the call to uploadAndSendMedia; or the rejection (the alert)
stopAndUnloadReturn(j) ==
  /\ stopCalls[j].stage = "stopping"
  /\ \E ok \in BOOLEAN, uri \in BOOLEAN :
       IF ok
         THEN /\ recorders' = [recorders EXCEPT ![stopCalls[j].rec] = "stopped"]
              /\ recording' = NoRecording
              /\ stopCalls' = [stopCalls EXCEPT ![j].stage = IF uri THEN "uploading" ELSE "done"]
         ELSE /\ stopCalls' = [stopCalls EXCEPT ![j].stage = "failed"]
              /\ UNCHANGED <<recorders, recording>>
  /\ UNCHANGED <<micPressed, presses, isRecording, startCalls, audioSent, notRecAtAll>>

\* uploadAndSendMedia(uri, 'audio') returns: the message was inserted, or not
audioUploadReturn(j) ==
  /\ stopCalls[j].stage = "uploading"
  /\ stopCalls' = [stopCalls EXCEPT ![j].stage = "done"]
  /\ \E sent \in BOOLEAN :
       audioSent' = [audioSent EXCEPT ![stopCalls[j].press] = @ + (IF sent THEN 1 ELSE 0)]
  /\ UNCHANGED <<micPressed, presses, recording, isRecording, recorders, startCalls,
                 notRecAtAll>>

RecNext ==
  \/ pressIn
  \/ pressOut
  \/ \E i \in DOMAIN startCalls : createAsyncReturn(i)
  \/ \E j \in DOMAIN stopCalls : stopAndUnloadReturn(j)
  \/ \E j \in DOMAIN stopCalls : audioUploadReturn(j)

\* every promise settles; the user may stop pressing
SpecRecording ==
  /\ RecInit
  /\ [][RecNext]_vars
  /\ WF_vars(\E i \in DOMAIN startCalls : createAsyncReturn(i))
  /\ WF_vars(\E j \in DOMAIN stopCalls : stopAndUnloadReturn(j))
  /\ WF_vars(\E j \in DOMAIN stopCalls : audioUploadReturn(j))

\* no promise of startRecording or stopRecording has rejected
NoRecFailure ==
  /\ \A i \in DOMAIN startCalls : startCalls[i].stage # "failed"
  /\ \A j \in DOMAIN stopCalls : stopCalls[j].stage # "failed"

\* C27: once the microphone button is released, and unless it is pressed
\* again or a promise rejects, the screen reaches isRecording = false with
\* the state recording null, under every interleaving of startRecording
\* with stopRecording.
C27_RecordingStopsOnRelease ==
  (~micPressed /\ presses > 0 /\ NoRecFailure)
    ~> (micPressed \/ ~NoRecFailure \/ (~isRecording /\ recording = NoRecording))

\* what holds: the stopRecording of one press sends at most one audio message
C27_OneAudioPerPress ==
  \A n \in DOMAIN audioSent : audioSent[n] <= 1

\* a press released before createAsync resolved has left a recording running
C27_ShortPressReached ==
  /\ ~micPressed
  /\ isRecording
  /\ recording # NoRecording
  /\ stopCalls = <<>>
  /\ NoRecFailure

-----------------------------------------------------------------------------
(* Doctor dashboard: (doctor)/index.tsx DoctorHomeScreen.fetchData         *)

MaxHomeAppts == 2
MaxUnread == 6
MaxHomeFetches == 2

\* .limit(5) of the appointments query and of the messages query
FetchLimit == 5

\* the signed-in doctor (user.id) and the rows the tables may hold; a row
\* carries the columns the three queries filter on
HomeDoctor == "d1"
HomeApptRows ==
  [patient_id : {"p1", "p2"}, doctor_id : {"d1", "d2"}, status : {"upcoming", "completed"}]
HomeApptTables == UNION {[1..n -> HomeApptRows] : n \in 0..MaxHomeAppts}

\* a messages table: u unread messages for the doctor, one message the doctor
\* has read and one unread message for another doctor
HomeMsgTable(u) ==
  [k \in 1..u |-> [receiver_id |-> "d1", read |-> FALSE]]
    \o <<[receiver_id |-> "d1", read |-> TRUE], [receiver_id |-> "d2", read |-> FALSE]>>

\* .limit(n)
Limit(s, n) == IF Len(s) <= n THEN s ELSE SubSeq(s, 1, n)

IsUpcomingOf(doctor, row) ==
  row.doctor_id = doctor /\ row.status \in {"upcoming", "rescheduled"}
IsUnreadFor(doctor, row) == row.receiver_id = doctor /\ ~row.read
IsAppointmentOf(doctor, row) == row.doctor_id = doctor

\* the three queries of fetchData
UpcomingQuery(table, doctor) ==
  Limit(SelectSeq(table, LAMBDA row : IsUpcomingOf(doctor, row)), FetchLimit)
UnreadQuery(table, doctor) ==
  Limit(SelectSeq(table, LAMBDA row : IsUnreadFor(doctor, row)), FetchLimit)
PatientCountQuery(table, doctor) ==
  Len(SelectSeq(table, LAMBDA row : IsAppointmentOf(doctor, row)))

\* a fetchData call before its first query is answered, and after it returned
SentHomeFetch == [stage |-> "sent", failed |-> "none", appts |-> <<>>, msgs |-> <<>>, count |-> 0]
DoneHomeFetch == [stage |-> "done", failed |-> "none", appts |-> <<>>, msgs |-> <<>>, count |-> 0]

\* the screen is mounted for the doctor: the effect has called fetchData
DashInit ==
  /\ dashAppts \in HomeApptTables
  /\ \E u \in 0..MaxUnread : dashMsgs = HomeMsgTable(u)
  /\ homeAppointments = <<>>
  /\ homeMessages = <<>>
  /\ patientCount = 0
  /\ homeLoading = TRUE
  /\ refreshing = FALSE
  /\ homeFetches = <<SentHomeFetch>>
  /\ InboxIdle
  /\ ApptIdle
  /\ AuthIdle
  /\ NotDashIdle

notDashAtAll == <<inboxVars, apptVars, authVars, notDashVars>>

\* onRefresh: setRefreshing(true); fetchData()
onRefresh ==
  /\ Len(homeFetches) < MaxHomeFetches
  /\ refreshing' = TRUE
  /\ homeFetches' = Append(homeFetches, SentHomeFetch)
  /\ UNCHANGED <<dashAppts, dashMsgs, homeAppointments, homeMessages, patientCount,
                 homeLoading, notDashAtAll>>

\* the backend answers the queries of a fetchData call; the first query that
\* fails makes the call throw
homeQueriesAnswered(i) ==
  /\ homeFetches[i].stage = "sent"
  /\ \E failed \in {"none", "appointments", "messages", "count"} :
       homeFetches' =
         [homeFetches EXCEPT ![i] =
            [stage |-> "answered", failed |-> failed,
             appts |-> IF failed = "none" THEN UpcomingQuery(dashAppts, HomeDoctor) ELSE <<>>,
             msgs |-> IF failed = "none" THEN UnreadQuery(dashMsgs, HomeDoctor) ELSE <<>>,
             count |-> IF failed = "none" THEN PatientCountQuery(dashAppts, HomeDoctor) ELSE 0]]
  /\ UNCHANGED <<dashAppts, dashMsgs, homeAppointments, homeMessages, patientCount,
                 homeLoading, refreshing, notDashAtAll>>

\* fetchData after its awaits: the three setters, or the catch; then finally
fetchDataReturn(i) ==
  /\ homeFetches[i].stage = "answered"
  /\ IF homeFetches[i].failed = "none"
       THEN /\ homeAppointments' = homeFetches[i].appts
            /\ homeMessages' = homeFetches[i].msgs
            /\ patientCount' = homeFetches[i].count
       ELSE UNCHANGED <<homeAppointments, homeMessages, patientCount>>
  /\ homeLoading' = FALSE
  /\ refreshing' = FALSE
  /\ homeFetches' = [homeFetches EXCEPT ![i] = DoneHomeFetch]
  /\ UNCHANGED <<dashAppts, dashMsgs, notDashAtAll>>

DashNext ==
  \/ onRefresh
  \/ \E i \in DOMAIN homeFetches : homeQueriesAnswered(i)
  \/ \E i \in DOMAIN homeFetches : fetchDataReturn(i)

SpecDashboard == DashInit /\ [][DashNext]_vars

\* the figures of the stats cards
PatientsFigure == patientCount
UnreadFigure == Len(homeMessages)

\* the patients who have an appointment with the doctor, and the unread
\* messages addressed to the doctor
PatientsOf(doctor) ==
  {dashAppts[k].patient_id : k \in {n \in DOMAIN dashAppts : dashAppts[n].doctor_id = doctor}}
UnreadOf(doctor) ==
  {k \in DOMAIN dashMsgs : dashMsgs[k].receiver_id = doctor /\ ~dashMsgs[k].read}

\* a step in which fetchData returns after three successful queries, or
\* after a failed one
FetchDataSucceeded ==
  \E i \in DOMAIN homeFetches :
    /\ homeFetches[i].stage = "answered"
    /\ homeFetches[i].failed = "none"
    /\ homeFetches'[i].stage = "done"
FetchDataFailed ==
  \E i \in DOMAIN homeFetches :
    /\ homeFetches[i].stage = "answered"
    /\ homeFetches[i].failed # "none"
    /\ homeFetches'[i].stage = "done"

\* C30: after a successful fetchData the Patients figure is the number of
\* distinct patients who have an appointment with the doctor and the Unread
\* figure is the number of unread messages addressed to the doctor; a
\* fetchData with a failed query changes none of the displayed values.
C30_DashboardCounts ==
  [][/\ FetchDataSucceeded =>
          /\ PatientsFigure' = Cardinality(PatientsOf(HomeDoctor))
          /\ UnreadFigure' = Cardinality(UnreadOf(HomeDoctor))
     /\ FetchDataFailed =>
          UNCHANGED <<homeAppointments, homeMessages, patientCount>>]_vars

\* the two figures taken apart
C30_PatientsFigure ==
  [][FetchDataSucceeded => PatientsFigure' = Cardinality(PatientsOf(HomeDoctor))]_vars
C30_UnreadFigure ==
  [][FetchDataSucceeded => UnreadFigure' = Cardinality(UnreadOf(HomeDoctor))]_vars

\* what holds: the Patients figure is the number of the doctor's appointment
\* rows, the Unread figure is the number of unread messages up to the limit
\* of the query, and a failed fetchData changes no displayed value
C30_CountsAsComputed ==
  [][/\ FetchDataSucceeded =>
          /\ PatientsFigure' = Cardinality({k \in DOMAIN dashAppts :
                                              dashAppts[k].doctor_id = HomeDoctor})
          /\ UnreadFigure' = IF Cardinality(UnreadOf(HomeDoctor)) <= FetchLimit
                               THEN Cardinality(UnreadOf(HomeDoctor)) ELSE FetchLimit
     /\ FetchDataFailed =>
          UNCHANGED <<homeAppointments, homeMessages, patientCount>>]_vars

\* a failed fetchData has returned after a successful one showed its values
C30_FailureAfterSuccessReached ==
  /\ patientCount > 0
  /\ \E i \in DOMAIN homeFetches : homeFetches[i].stage = "answered" /\ homeFetches[i].failed # "none"
  /\ \E i \in DOMAIN homeFetches : homeFetches[i].stage = "done"

=============================================================================
